---- MODULE Spec2Model ----
(***************************************************************************)
(* Documentation Automation Hub (server.js): the webhook signature gate,   *)
(* the in-process job queue (jobQueue / activeJobs / processQueue) and the *)
(* HTTP handlers that feed it.                                             *)
(*                                                                         *)
(* Text is modelled as a sequence of integers.  An integer below 256 is a  *)
(* byte (in a Buffer) or a character code (in a JavaScript string); 65533  *)
(* is U+FFFD; an integer from RunBase upwards stands for a fixed run of    *)
(* printable ASCII (a piece of compact JSON text) that every conversion    *)
(* copies unchanged and that the JSON parser reads through the Members     *)
(* table.                                                                  *)
(***************************************************************************)
EXTENDS Integers, Sequences, FiniteSets, TLC

----------------------------------------------------------------------------
(* Bounds of the model *)

\* longest string value ("after") a generated body carries, in bytes
MaxStr == 1
\* number of webhooks a process accepts into jobQueue before the model stops
\* accepting more
MaxJobs == 3
\* largest concurrency cap the model starts a process with
MaxCap == 2
\* restart handlers in flight at the same time
MaxRestarts == 1
\* the longest stdout / stderr of a command, in characters
MaxOutput == 501
\* longest text of the environment variable MAX_CONCURRENT_JOBS
MaxCapText == 2
\* most files a scan of the cartographer finds
MaxFiles == 3

----------------------------------------------------------------------------
(* Bytes, characters and runs *)

\* run codes lie above every Unicode code point (the largest is 1114111)
RunBase == 2 ^ 21
REPLACEMENT == 65533

IsRun(x) == x >= RunBase

Pow2(k) == 2 ^ k
BitOf(n, k) == (n \div Pow2(k)) % 2
\* n with bit k inverted (n XOR 2^k)
FlipBit(n, k) == IF BitOf(n, k) = 1 THEN n - Pow2(k) ELSE n + Pow2(k)

\* s with the byte at position i replaced by the same byte with bit k inverted
FlipAt(s, i, k) == [s EXCEPT ![i] = FlipBit(s[i], k)]

Last(s) == s[Len(s)]

----------------------------------------------------------------------------
(* Buffer <-> string conversions of Node.js *)

IsCont(x) == x >= 128 /\ x <= 191

\* lowest and highest second byte the UTF-8 decoder accepts after lead byte x
Utf8Lower(x) == IF x = 224 THEN 160 ELSE IF x = 240 THEN 144 ELSE 128
Utf8Upper(x) == IF x = 237 THEN 159 ELSE IF x = 244 THEN 143 ELSE 191

\* number of continuation bytes lead byte x announces (0: not a lead byte)
Utf8Needed(x) ==
    IF x >= 194 /\ x <= 223 THEN 1
    ELSE IF x >= 224 /\ x <= 239 THEN 2
    ELSE IF x >= 240 /\ x <= 244 THEN 3
    ELSE 0

Utf8LeadBits(x) ==
    IF x <= 223 THEN x - 192 ELSE IF x <= 239 THEN x - 224 ELSE x - 240

\* buf.toString('utf8'): every maximal invalid part becomes one U+FFFD
RECURSIVE Utf8DecodeFrom(_, _)
Utf8DecodeFrom(b, i) ==
    IF i > Len(b) THEN <<>>
    ELSE LET x == b[i] IN
      IF IsRun(x) \/ x < 128 THEN <<x>> \o Utf8DecodeFrom(b, i + 1)
      ELSE IF Utf8Needed(x) = 0 THEN <<REPLACEMENT>> \o Utf8DecodeFrom(b, i + 1)
      ELSE LET n    == Utf8Needed(x)
               ok2  == i + 1 <= Len(b) /\ ~IsRun(b[i + 1])
                       /\ b[i + 1] >= Utf8Lower(x) /\ b[i + 1] <= Utf8Upper(x)
               ok3  == ok2 /\ i + 2 <= Len(b) /\ IsCont(b[i + 2])
               ok4  == ok3 /\ i + 3 <= Len(b) /\ IsCont(b[i + 3])
               c2   == Utf8LeadBits(x) * 64 + (b[i + 1] - 128)
           IN CASE ~ok2 -> <<REPLACEMENT>> \o Utf8DecodeFrom(b, i + 1)
                []  ok2 /\ n = 1 -> <<c2>> \o Utf8DecodeFrom(b, i + 2)
                []  ok2 /\ n >= 2 /\ ~ok3 ->
                        <<REPLACEMENT>> \o Utf8DecodeFrom(b, i + 2)
                []  ok3 /\ n = 2 ->
                        <<c2 * 64 + (b[i + 2] - 128)>> \o Utf8DecodeFrom(b, i + 3)
                []  ok3 /\ n = 3 /\ ~ok4 ->
                        <<REPLACEMENT>> \o Utf8DecodeFrom(b, i + 3)
                []  ok4 /\ n = 3 ->
                        <<(c2 * 64 + (b[i + 2] - 128)) * 64 + (b[i + 3] - 128)>>
                            \o Utf8DecodeFrom(b, i + 4)

Utf8Decode(b) == Utf8DecodeFrom(b, 1)

\* the UTF-8 bytes of one character
Utf8Char(c) ==
    IF IsRun(c) \/ c < 128 THEN <<c>>
    ELSE IF c < 2048 THEN <<192 + (c \div 64), 128 + (c % 64)>>
    ELSE IF c < 65536
         THEN <<224 + (c \div 4096), 128 + ((c \div 64) % 64), 128 + (c % 64)>>
    ELSE <<240 + (c \div 262144), 128 + ((c \div 4096) % 64),
           128 + ((c \div 64) % 64), 128 + (c % 64)>>

\* Buffer.from(str) and hmac.update(str): the string's UTF-8 bytes
RECURSIVE Utf8Encode(_)
Utf8Encode(str) ==
    IF str = <<>> THEN <<>> ELSE Utf8Char(Head(str)) \o Utf8Encode(Tail(str))

HexDigit(d) == IF d < 10 THEN 48 + d ELSE 87 + d
Hex3(n) == <<HexDigit(n \div 256), HexDigit((n \div 16) % 16), HexDigit(n % 16)>>

----------------------------------------------------------------------------
(* HMAC-SHA256, hex encoded *)

\* the secrets used: "k1" and "k2" (an unset or empty variable is <<>>)
K1 == <<107, 49>>
K2 == <<107, 50>>
SecretLen == 2

\* number of message items the digest text has room for: the longest body
\* (a blank, 2 braces, a run, an opening run, MaxStr bytes, a quote) with
\* every string byte grown to the 3 bytes of U+FFFD
DigestItems == 6 + 3 * MaxStr

MacCode(x) == IF IsRun(x) THEN 257 + (x - RunBase) ELSE x + 1

RECURSIVE HexDump(_)
HexDump(b) == IF b = <<>> THEN <<>> ELSE Hex3(MacCode(Head(b))) \o HexDump(Tail(b))

Zeros(n) == [i \in 1..n |-> 48]

\* crypto.createHmac('sha256', key).update(msg).digest('hex'): a text of hex
\* digits of one fixed length that is different for every different pair of
\* key and message (the model's messages are at most DigestItems long, so the
\* padded dump of key and message is such a text)
Hmac(key, msg) ==
    HexDump(key) \o Zeros(3 * (SecretLen - Len(key)))
        \o HexDump(msg) \o Zeros(3 * (DigestItems - Len(msg)))

\* the characters of 'sha256='
SHA256_PREFIX == <<115, 104, 97, 50, 53, 54, 61>>

\* what a sender holding `key` puts in X-Hub-Signature-256 for the bytes sent
Sign(key, bytes) == SHA256_PREFIX \o Hmac(key, bytes)

----------------------------------------------------------------------------
(* JSON texts and values *)

SPACE == 32
QUOTE == 34
BACKSLASH == 92
LBRACE == 123
RBRACE == 125

\* runs: member lists in compact form, and the opening of an "after" member
M_ENABLED  == RunBase + 1  \* "repository":{"name":"wish-x"},"ref":"refs/heads/main"
M_MERGE    == RunBase + 2  \* M_ENABLED,"head_commit":{"message":"Merge pull request #1"}
M_DISABLED == RunBase + 3  \* "repository":{"name":"wish-legacy"},"ref":"refs/heads/main"
M_UNKNOWN  == RunBase + 4  \* "repository":{"name":"nope"},"ref":"refs/heads/main"
M_NOREPO   == RunBase + 5  \* "test":"data"
M_NUMAFTER == RunBase + 6  \* "repository":{"name":"wish-x"},"after":7
M_PROTO    == RunBase + 7  \* "repository":{"name":"constructor"},"ref":"refs/heads/main"
M_BRANCH   == RunBase + 8  \* "repository":{"name":"wish-x"},"ref":"refs/heads/dev","head_commit":{"message":"Merge pull request #1"}
M_NUMMSG   == RunBase + 9  \* M_ENABLED,"head_commit":{"message":1}
M_STRREPO  == RunBase + 10 \* "repository":"wish-x","branch":"main","reason":"code_update"
M_SERVICE  == RunBase + 11 \* "service":"wish-x"
AFTER_FIRST == RunBase + 14 \* "after":"
AFTER_NEXT  == RunBase + 15 \* ,"after":"

\* the member lists of the two examples of the NGINX guide
GuideRuns == {M_STRREPO, M_SERVICE}

MemberRuns ==
    {M_ENABLED, M_MERGE, M_DISABLED, M_UNKNOWN, M_NOREPO, M_NUMAFTER, M_PROTO,
     M_BRANCH, M_NUMMSG} \cup GuideRuns

\* the run field of an object without a member run
NoRun == RunBase

\* a parsed body: undefined, or an object given by its member run and its
\* "after" string
Undefined == [kind |-> "undefined", run |-> NoRun, hasAfter |-> FALSE, after |-> <<>>]
EmptyObject == [kind |-> "object", run |-> NoRun, hasAfter |-> FALSE, after |-> <<>>]
SyntaxError == [kind |-> "SyntaxError", run |-> NoRun, hasAfter |-> FALSE, after |-> <<>>]

RECURSIVE SkipWs(_, _)
SkipWs(t, i) == IF i <= Len(t) /\ t[i] = SPACE THEN SkipWs(t, i + 1) ELSE i

\* position of the first QUOTE of t at or after i (Len(t) + 1 when none)
RECURSIVE FindQuote(_, _)
FindQuote(t, i) ==
    IF i > Len(t) \/ t[i] = QUOTE THEN i ELSE FindQuote(t, i + 1)

\* a string body JSON.parse accepts as it stands (escapes are not generated)
PlainChars(c) ==
    \A i \in 1..Len(c) : ~IsRun(c[i]) /\ c[i] >= 32 /\ c[i] # BACKSLASH

At(t, i) == IF i >= 1 /\ i <= Len(t) THEN t[i] ELSE -1

\* JSON.parse under body-parser's strict mode, for the texts
\*   ws { ws [members] ws [opening-run chars " ] ws } ws
JsonParse(t) ==
    LET i1 == SkipWs(t, 1)
        i2 == SkipWs(t, i1 + 1)
        hasRun == At(t, i2) \in MemberRuns
        run == IF hasRun THEN t[i2] ELSE NoRun
        i3 == IF hasRun THEN SkipWs(t, i2 + 1) ELSE i2
        opens == At(t, i3) = (IF hasRun THEN AFTER_NEXT ELSE AFTER_FIRST)
        q == FindQuote(t, i3 + 1)
        chars == IF opens /\ q <= Len(t) THEN SubSeq(t, i3 + 1, q - 1) ELSE <<>>
        i4 == IF opens THEN SkipWs(t, q + 1) ELSE i3
        i5 == SkipWs(t, i4 + 1)
    IN IF /\ At(t, i1) = LBRACE
          /\ opens => (q <= Len(t) /\ PlainChars(chars))
          /\ At(t, i4) = RBRACE
          /\ i5 = Len(t) + 1
       THEN [kind |-> "object", run |-> run, hasAfter |-> opens, after |-> chars]
       ELSE SyntaxError

\* JSON.stringify: compact text, undefined for undefined
JsonStringify(v) ==
    <<LBRACE>>
      \o (IF v.run = NoRun THEN <<>> ELSE <<v.run>>)
      \o (IF v.hasAfter
          THEN <<IF v.run = NoRun THEN AFTER_FIRST ELSE AFTER_NEXT>> \o v.after \o <<QUOTE>>
          ELSE <<>>)
      \o <<RBRACE>>

\* payload.repository?.name ("" stands for undefined): the name property
\* of a string, as of an absent repository, is undefined
RepositoryName(v) ==
    CASE v.run \in {M_ENABLED, M_MERGE, M_NUMAFTER, M_BRANCH, M_NUMMSG} -> "wish-x"
      [] v.run = M_DISABLED -> "wish-legacy"
      [] v.run = M_UNKNOWN -> "nope"
      [] v.run = M_PROTO -> "constructor"
      [] OTHER -> ""

\* payload.ref ("" stands for undefined)
RefOf(v) ==
    IF v.run \in {M_ENABLED, M_MERGE, M_DISABLED, M_UNKNOWN, M_PROTO, M_NUMMSG}
    THEN "refs/heads/main"
    ELSE IF v.run = M_BRANCH THEN "refs/heads/dev" ELSE ""

\* typeof payload.head_commit?.message
MessageType(v) ==
    IF v.run \in {M_MERGE, M_BRANCH} THEN "string"
    ELSE IF v.run = M_NUMMSG THEN "number" ELSE "undefined"

\* payload.head_commit?.message?.includes('Merge pull request'), for a
\* message that is a string or undefined
HasMergeMarker(v) == v.run \in {M_MERGE, M_BRANCH}

\* typeof payload.after: the string member wins over a member of the run
AfterType(v) ==
    IF v.hasAfter THEN "string"
    ELSE IF v.run = M_NUMAFTER THEN "number" ELSE "undefined"

----------------------------------------------------------------------------
(* The request as sent, and as the middleware hands it to a route *)

\* express.json() and its verify callback (server.js 26-32), for a request
\*   [ctype, framed, bytes, hasSig, sig]
\* ctype "json" is application/json, "text" a type no parser of the
\* application handles; framed says that the request announces a body
\* (Content-Length or Transfer-Encoding).  major is the major version of
\* the installed express: 4 leaves req.body = {} when nothing was parsed,
\* 5 leaves it undefined.
Unparsed(major) == IF major = 4 THEN EmptyObject ELSE Undefined

ParsesBody(r) == r.ctype = "json" /\ r.framed

\* req.rawBody: [set, value]
RawBody(r) ==
    IF ParsesBody(r)
    THEN [set |-> TRUE, value |-> Utf8Decode(r.bytes)]
    ELSE [set |-> FALSE, value |-> <<>>]

\* req.body (SyntaxError: the parser fails and the route is not reached)
ReqBody(r, major) ==
    IF ~ParsesBody(r) THEN Unparsed(major)
    ELSE IF r.bytes = <<>> THEN EmptyObject
    ELSE JsonParse(Utf8Decode(r.bytes))

ReachesRoute(r, major) == ReqBody(r, major).kind # "SyntaxError"

----------------------------------------------------------------------------
(* verifyWebhookSignature (server.js 68-100) *)

\* a built-in secret used when neither variable is set
SecretOrDefault(e) ==
    IF e.WEBHOOK_SECRET # <<>> THEN e.WEBHOOK_SECRET
    ELSE IF e.GITHUB_WEBHOOK_SECRET # <<>> THEN e.GITHUB_WEBHOOK_SECRET
    ELSE K1

\* process.env.WEBHOOK_SECRET || process.env.GITHUB_WEBHOOK_SECRET
SecretOf(e) ==
    IF e.WEBHOOK_SECRET # <<>> THEN e.WEBHOOK_SECRET
    ELSE e.GITHUB_WEBHOOK_SECRET

\* req.rawBody || JSON.stringify(req.body): [defined, text]
PayloadOf(r, major) ==
    LET raw == RawBody(r)
        body == ReqBody(r, major)
    IN IF raw.set /\ raw.value # <<>> THEN [defined |-> TRUE, text |-> raw.value]
       ELSE IF body.kind = "object"
            THEN [defined |-> TRUE, text |-> JsonStringify(body)]
       ELSE [defined |-> FALSE, text |-> <<>>]

\* 'sha256=' + hmac.update(payload).digest('hex')
DigestOf(secret, payload) == SHA256_PREFIX \o Hmac(secret, Utf8Encode(payload))

\* crypto.timingSafeEqual(a, b): "RangeError" for buffers of different
\* byte length
TimingSafeEqual(a, b) ==
    IF Len(a) # Len(b) THEN "RangeError"
    ELSE IF a = b THEN "true" ELSE "false"

\* verifyWebhookSignature without the `if (!signature)` return of lines 70-75
verifyWithoutHeaderCheck(r, e, major) ==
    LET secret == SecretOf(e)
        payload == PayloadOf(r, major)
    IN IF secret = <<>> THEN "false"
       ELSE IF ~payload.defined THEN "TypeError"
       ELSE TimingSafeEqual(Utf8Encode(IF r.hasSig THEN r.sig ELSE <<>>),
                            Utf8Encode(DigestOf(secret, payload.text)))

\* the outcome of verifyWebhookSignature(req): "true", "false", or the
\* exception it raises
verifyWebhookSignature(r, e, major) ==
    LET secret == SecretOf(e)
        payload == PayloadOf(r, major)
    IN IF ~r.hasSig \/ r.sig = <<>> THEN "false"
       ELSE IF secret = <<>> THEN "false"
       ELSE IF ~payload.defined THEN "TypeError"
       ELSE TimingSafeEqual(Utf8Encode(r.sig),
                            Utf8Encode(DigestOf(secret, payload.text)))

\* the fields of the log entry 'Signature mismatch' (server.js 90-97) that
\* hold a signature: written when the comparison has returned false.  The
\* entries 'Missing signature header' (71-73) and 'WEBHOOK_SECRET not
\* configured' (79) hold none.
SignatureLog(r, e, major) ==
    IF /\ r.hasSig
       /\ r.sig # <<>>
       /\ SecretOf(e) # <<>>
       /\ verifyWebhookSignature(r, e, major) = "false"
    THEN {[field |-> "received", text |-> r.sig],
          [field |-> "expected",
           text |-> DigestOf(SecretOf(e), PayloadOf(r, major).text)]}
    ELSE {}

\* the log entry of the handler that answers 401: /webhook/generate-docs
\* logs req.headers, the signature header among them (215-218);
\* /webhook/restart-service logs the ip alone (274-276)
RejectionLog(op, r) ==
    IF op = "generate-docs" /\ r.hasSig
    THEN {[field |-> "headers", text |-> r.sig]}
    ELSE {}

----------------------------------------------------------------------------
(* project-registry.json as loaded by loadProjectRegistry *)

\* the keys of projectRegistry.projects
RegistryKeys == {"wish-x", "wish-legacy"}

\* property names every object inherits from Object.prototype (those the
\* model sends)
InheritedNames == {"constructor"}

\* contents of project-registry.json: the sample of the README (wish-x
\* enabled, wish-legacy disabled), the same file after an operator has
\* enabled wish-legacy, and a file that cannot be read or is not JSON
README_REGISTRY == "readme"
EDITED_REGISTRY == "edited"
UNREADABLE == "unreadable"
RegistryFiles == {README_REGISTRY, EDITED_REGISTRY, UNREADABLE}

\* the value of the variable projectRegistry before loadProjectRegistry
\* has assigned it (server.js 36)
NotLoaded == "undefined"

\* fs.readFile and JSON.parse of loadProjectRegistry succeed
Loads(file) == file \in {README_REGISTRY, EDITED_REGISTRY}

\* reg.projects[name]: [found, enabled, default_branch], found saying that
\* the value looked up is truthy.  The lookup of an inherited name yields
\* the inherited value, whose enabled and default_branch are undefined.
ProjectIn(reg, name) ==
    CASE name = "wish-x" /\ Loads(reg) ->
            [found |-> TRUE, enabled |-> TRUE, default_branch |-> "main"]
      [] name = "wish-legacy" /\ Loads(reg) ->
            [found |-> TRUE, enabled |-> reg = EDITED_REGISTRY,
             default_branch |-> "main"]
      [] name \in InheritedNames /\ Loads(reg) ->
            [found |-> TRUE, enabled |-> FALSE, default_branch |-> ""]
      [] OTHER ->
            [found |-> FALSE, enabled |-> FALSE, default_branch |-> ""]

\* a handler that calls loadProjectRegistry() for every request
RegistryReloaded(loaded, file) == file

\* the registry a handler resolves the project in, after
\*   if (!projectRegistry) { await loadProjectRegistry(); }
\* loaded being the value of projectRegistry and file what is on disk
RegistryForRequest(loaded, file) == IF loaded = NotLoaded THEN file ELSE loaded

----------------------------------------------------------------------------
(* Requests the model sends *)

Request(ctype, framed, bytes, hasSig, sig) ==
    [ctype |-> ctype, framed |-> framed, bytes |-> bytes,
     hasSig |-> hasSig, sig |-> sig]

NoRequest == Request("none", FALSE, <<>>, FALSE, <<>>)

\* the header value 'sha256=invalid' of the authentication test in
\* NGINX-CONFIG.md
SHA256_INVALID == SHA256_PREFIX \o <<105, 110, 118, 97, 108, 105, 100>>

\* string values of "after": every text of at most MaxStr bytes over 'a' and
\* the byte 0xE1, which is not UTF-8 by itself
StrBytes == {97, 225}
StrValues == UNION {[1..n -> StrBytes] : n \in 0..MaxStr}

Obj(inner) == <<LBRACE>> \o inner \o <<RBRACE>>

\* what the two webhook senders of the gateway model post: signed with K1
\* unless said otherwise
DocsRequests ==
    {Request("json", TRUE, b, FALSE, <<>>) : b \in {Obj(<<>>), Obj(<<M_ENABLED>>)}}
      \cup {Request("json", TRUE, b, TRUE, Sign(K1, b)) :
                b \in {<<>>, <<SPACE>> \o Obj(<<M_ENABLED>>)}
                        \cup {Obj(<<m>>) : m \in MemberRuns \ ({M_MERGE, M_BRANCH, M_NUMMSG} \cup GuideRuns)}}
      \cup {Request("json", TRUE, Obj(<<M_NOREPO>>), TRUE, SHA256_INVALID),
            Request("json", TRUE, Obj(<<M_ENABLED>>), TRUE,
                    Sign(K2, Obj(<<M_ENABLED>>))),
            Request("text", TRUE, Obj(<<M_ENABLED>>), TRUE,
                    Sign(K1, Obj(<<M_ENABLED>>)))}

RestartRequests ==
    {Request("json", TRUE, Obj(<<M_MERGE>>), FALSE, <<>>)}
      \cup {Request("json", TRUE, Obj(<<m>>), TRUE, Sign(K1, Obj(<<m>>))) :
                m \in MemberRuns \ ({M_NUMAFTER} \cup GuideRuns)}
      \cup {Request("json", TRUE, Obj(<<M_MERGE>>), TRUE, SHA256_INVALID),
            Request("json", TRUE, Obj(<<M_MERGE>>), TRUE,
                    Sign(K2, Obj(<<M_MERGE>>)))}

\* the requests of the examples of NGINX-CONFIG.md, signed as its commands
\* sign them (hex of the HMAC-SHA256 of the payload, after 'sha256=')
GuideDocs ==
    Request("json", TRUE, Obj(<<M_STRREPO>>), TRUE, Sign(K1, Obj(<<M_STRREPO>>)))
GuideRestart ==
    Request("json", TRUE, Obj(<<M_SERVICE>>), TRUE, Sign(K1, Obj(<<M_SERVICE>>)))

GatewayRequests == DocsRequests \cup RestartRequests \cup {GuideDocs, GuideRestart}

\* the webhook GitHub sends for a merged pull request of wish-x, signed K1
MergeRequest ==
    Request("json", TRUE, Obj(<<M_MERGE>>), TRUE, Sign(K1, Obj(<<M_MERGE>>)))

\* the environments a process is started in
Environments ==
    { [WEBHOOK_SECRET |-> K1, GITHUB_WEBHOOK_SECRET |-> <<>>],
      [WEBHOOK_SECRET |-> <<>>, GITHUB_WEBHOOK_SECRET |-> K2],
      [WEBHOOK_SECRET |-> <<>>, GITHUB_WEBHOOK_SECRET |-> <<>>] }

ExpressMajors == {4, 5}

\* what a route handler of a process (environment e, express x) sees of
\* request r: whether the route is reached, the outcome of
\* verifyWebhookSignature(req), and req.body
Delivery(r, e, x) ==
    [reaches |-> ReachesRoute(r, x),
     verified |-> verifyWebhookSignature(r, e, x),
     body |-> ReqBody(r, x)]

\* Delivery, tabulated for the requests of the gateway model
Deliveries ==
    [r \in GatewayRequests |->
        [e \in Environments |-> [x \in ExpressMajors |-> Delivery(r, e, x)]]]

Delivered(r, e, x) == Deliveries[r][e][x]

----------------------------------------------------------------------------
(* utils/invoke-cartographer-programmatic.mjs: the grouping of the scanned  *)
(* files, and a run of main()                                               *)

\* const MAX_TOKENS = 120000
MAX_TOKENS == 120000

\* the token estimates of the scanned files
TokenSizes == {0, MAX_TOKENS \div 2, MAX_TOKENS, MAX_TOKENS + 1}

\* scanResult.files: the files in the order scanned, path standing for the
\* position in that order
ScannedFiles ==
    UNION {{[i \in 1..n |-> [path |-> i, tokens |-> t[i]]] : t \in [1..n -> TokenSizes]} :
              n \in 0..MaxFiles}

\* the for loop of groupFiles from file i on
RECURSIVE GroupLoop(_, _, _, _, _)
GroupLoop(files, i, groups, currentGroup, currentTokens) ==
    IF i > Len(files)
    THEN [groups |-> groups, currentGroup |-> currentGroup]
    ELSE LET file == files[i]
             full == currentTokens + file.tokens > MAX_TOKENS /\ Len(currentGroup) > 0
         IN GroupLoop(files, i + 1,
                      IF full THEN Append(groups, currentGroup) ELSE groups,
                      Append(IF full THEN <<>> ELSE currentGroup, file),
                      (IF full THEN 0 ELSE currentTokens) + file.tokens)

\* groupFiles without the push of the last group after the loop
groupFilesWithoutLast(scanResult) ==
    GroupLoop(scanResult.files, 1, <<>>, <<>>, 0).groups

\* groupFiles(scanResult), for a scanResult whose files is a list
groupFiles(scanResult) ==
    LET end == GroupLoop(scanResult.files, 1, <<>>, <<>>, 0)
    IN IF Len(end.currentGroup) > 0
       THEN Append(end.groups, end.currentGroup)
       ELSE end.groups

\* what runScanner() resolves with: an object with the files, or the value
\* of a scanner output that is valid JSON and not an object (null)
ScanResult(files) == [kind |-> "object", files |-> files]
ScanNull == [kind |-> "null", files |-> <<>>]

\* a run of main() before its first step: the files its scan will find, and
\* whether writes to the output file and under docs/ succeed.  map: docs/
\* CODEBASE_MAP.md has been written; output: what the output file holds;
\* exit: the exit code; raised: the step whose exception main() caught
Run(files, outputWritable, docsWritable) ==
    [pc |-> "scan", found |-> files,
     outputWritable |-> outputWritable, docsWritable |-> docsWritable,
     scanResult |-> ScanNull, groups |-> <<>>, analyses |-> <<>>,
     map |-> FALSE, output |-> "none", exit |-> "-", raised |-> "-"]

\* no run
Idle == [Run(<<>>, TRUE, TRUE) EXCEPT !.pc = "idle"]

----------------------------------------------------------------------------
(* State *)

VARIABLES
    env,                  \* process.env: the two secret variables
    express,              \* major version of the installed express
    MAX_CONCURRENT_JOBS,  \* server.js 47
    proc,                 \* "down" or "up" (listening)
    jobQueue,             \* server.js 45
    activeJobs,           \* server.js 46
    executing,            \* jobs whose processJob promise is pending
    immediates,           \* pending setImmediate(processQueue) callbacks
    restarting,           \* restart handlers in flight
    accepted,             \* history: jobs pushed by this process
    completed,            \* history: jobs whose finally block has run
    started,              \* history: ids of jobs in the order processJob began
    last,                 \* the last event and the response it produced
    registryFile,         \* project-registry.json on disk
    projectRegistry,      \* server.js 36: the registry the process has loaded
    cartographer          \* a run of invoke-cartographer-programmatic.mjs

vars == <<env, express, MAX_CONCURRENT_JOBS, proc, jobQueue, activeJobs,
          executing, immediates, restarting, accepted, completed, started, last,
          registryFile, projectRegistry, cartographer>>

\* what no step of the gateway process changes: its configuration, and the
\* run of the cartographer, a program of its own
config == <<env, express, MAX_CONCURRENT_JOBS, registryFile, cartographer>>
queue == <<jobQueue, activeJobs, executing, immediates>>

\* projectRegistry.projects[name] in the registry the process has loaded
ProjectOf(name) == ProjectIn(projectRegistry, name)
history == <<accepted, completed, started>>

\* an event of which no command output is kept or logged
NoCapture ==
    [output |-> 0, error |-> 0, logStdout |-> 0, logStderr |-> 0, logError |-> 0]

\* an event at which the process holds on to its jobs
NoneDropped == [pending |-> 0, inFlight |-> 0]

\* the jobs that exist only in the memory of the process (server.js 45-46)
\* and end with it: those waiting in jobQueue, those whose command runs
Dropped == [pending |-> Len(jobQueue), inFlight |-> Cardinality(executing)]

Event(op, req, verified, status) ==
    [op |-> op, req |-> req, verified |-> verified, status |-> status,
     queuePosition |-> 0, activeJobs |-> 0, queueLength |-> 0, outcome |-> "-",
     success |-> FALSE, exitCode |-> "-", exit |-> "-",
     captured |-> NoCapture,
     dropped |-> NoneDropped,
     base |-> NoRequest]

Min(a, b) == IF a <= b THEN a ELSE b

\* the state of a process that has just been started or has just ended
Fresh ==
    /\ jobQueue' = <<>>
    /\ activeJobs' = 0
    /\ executing' = {}
    /\ immediates' = 0
    /\ restarting' = 0
    /\ accepted' = 0
    /\ completed' = 0
    /\ started' = <<>>

Init ==
    /\ env \in Environments
    /\ express \in ExpressMajors
    /\ MAX_CONCURRENT_JOBS \in 1..MaxCap
    /\ proc = "down"
    /\ jobQueue = <<>>
    /\ activeJobs = 0
    /\ executing = {}
    /\ immediates = 0
    /\ restarting = 0
    /\ accepted = 0
    /\ completed = 0
    /\ started = <<>>
    /\ last = Event("boot", NoRequest, "-", 0)
    /\ registryFile \in {README_REGISTRY, UNREADABLE}
    /\ projectRegistry = NotLoaded
    /\ cartographer = Idle

----------------------------------------------------------------------------
(* Process start and end *)

\* a start() whose catch block logs the failure and goes on to listen
StartIgnoringFailure ==
    /\ proc = "down"
    /\ \E logsDir \in BOOLEAN :
          /\ proc' = "up"
          /\ projectRegistry' = IF logsDir /\ Loads(registryFile)
                                THEN registryFile ELSE NotLoaded
          /\ last' = Event("start", NoRequest, "-", 0)
    /\ Fresh
    /\ UNCHANGED config

\* start() (server.js 361-383): the logs directory is made, the registry
\* loads and the server listens; or one of the two fails, and the catch
\* block ends the process with process.exit(1).  exit is the exit code.
Start ==
    /\ proc = "down"
    /\ \E logsDir \in BOOLEAN :
          IF logsDir /\ Loads(registryFile)
          THEN /\ proc' = "up"
               /\ projectRegistry' = registryFile
               /\ last' = Event("start", NoRequest, "-", 0)
          ELSE /\ proc' = "down"
               /\ projectRegistry' = NotLoaded
               /\ last' = [Event("start-failed", NoRequest, "-", 0) EXCEPT
                              !.exit = "1"]
    /\ Fresh
    /\ UNCHANGED config

\* a shutdown that leaves the queue and its counters as they are, for the
\* next process to take up
StopKeepingJobs ==
    /\ proc = "up"
    /\ proc' = "down"
    /\ projectRegistry' = NotLoaded
    /\ last' = [Event("stop", NoRequest, "-", 0) EXCEPT !.exit = "0"]
    /\ UNCHANGED <<config, queue, restarting, history>>

\* SIGTERM / SIGINT (server.js 386-394): process.exit(0) at once, whatever
\* waits or runs
Stop ==
    /\ proc = "up"
    /\ proc' = "down"
    /\ projectRegistry' = NotLoaded
    /\ last' = [Event("stop", NoRequest, "-", 0) EXCEPT
                    !.exit = "0", !.dropped = Dropped]
    /\ Fresh
    /\ UNCHANGED config

\* An exception leaves an async route handler as a rejected promise.
\* express 5 passes it to the error middleware (server.js 351-358), which
\* answers 500; express 4 drops it, and Node ends the process on the
\* unhandled rejection: no response is sent.
RouteThrows(op, r, v) ==
    IF express = 5
    THEN /\ last' = Event(op, r, v, 500)
         /\ UNCHANGED <<proc, projectRegistry, queue, restarting, history>>
    ELSE /\ last' = [Event(op, r, v, 0) EXCEPT !.exit = "1", !.dropped = Dropped]
         /\ proc' = "down"
         /\ projectRegistry' = NotLoaded
         /\ Fresh

----------------------------------------------------------------------------
(* GET /health (server.js 201-209) *)

\* a handler that reports the jobs not yet completed as queueLength
HealthStale ==
    /\ proc = "up"
    /\ last' = [Event("health", NoRequest, "-", 200) EXCEPT
                    !.activeJobs = activeJobs,
                    !.queueLength = accepted - completed]
    /\ UNCHANGED <<config, proc, projectRegistry, queue, restarting, history>>

Health ==
    /\ proc = "up"
    /\ last' = [Event("health", NoRequest, "-", 200) EXCEPT
                    !.activeJobs = activeJobs,
                    !.queueLength = Len(jobQueue)]
    /\ UNCHANGED <<config, proc, projectRegistry, queue, restarting, history>>

----------------------------------------------------------------------------
(* POST /webhook/generate-docs (server.js 212-268) *)

Job(id, name, payload) == [id |-> id, project |-> name, payload |-> payload]

\* an answer followed by setImmediate(processQueue)
RejectAndDrain(op, r, v, status) ==
    /\ last' = Event(op, r, v, status)
    /\ immediates' = immediates + 1
    /\ UNCHANGED <<proc, jobQueue, activeJobs, executing, restarting, history>>

\* the answer that ends the handler without touching the queue
Reject(op, r, v, status) ==
    /\ last' = Event(op, r, v, status)
    /\ UNCHANGED <<proc, queue, restarting, history>>

\* queuePosition read before jobQueue.push
EnqueueStalePosition(r, v, name, payload) ==
    /\ accepted < MaxJobs
    /\ jobQueue' = Append(jobQueue, Job(accepted + 1, name, payload))
    /\ accepted' = accepted + 1
    /\ immediates' = immediates + 1
    /\ last' = [Event("generate-docs", r, v, 202) EXCEPT
                    !.queuePosition = Len(jobQueue),
                    !.activeJobs = activeJobs]
    /\ UNCHANGED <<proc, activeJobs, executing, restarting, completed, started>>

\* processQueue() called in the handler before the response: with a free
\* slot the job has started when 202 is sent
EnqueueThenDrain(r, v, name, payload) ==
    /\ accepted < MaxJobs
    /\ accepted' = accepted + 1
    /\ IF jobQueue = <<>> /\ activeJobs < MAX_CONCURRENT_JOBS
       THEN /\ started' = Append(started, accepted + 1)
            /\ executing' = executing \cup {Job(accepted + 1, name, payload)}
            /\ activeJobs' = activeJobs + 1
            /\ UNCHANGED <<jobQueue, immediates>>
       ELSE /\ jobQueue' = Append(jobQueue, Job(accepted + 1, name, payload))
            /\ immediates' = immediates + 1
            /\ UNCHANGED <<started, executing, activeJobs>>
    /\ last' = [Event("generate-docs", r, v, 202) EXCEPT
                    !.queuePosition = Len(jobQueue'),
                    !.activeJobs = activeJobs']
    /\ UNCHANGED <<proc, restarting, completed>>

\* a handler that accepts a job only while a slot is free
EnqueueIfIdle(r, v, name, payload) ==
    /\ accepted < MaxJobs
    /\ activeJobs < MAX_CONCURRENT_JOBS
    /\ jobQueue' = Append(jobQueue, Job(accepted + 1, name, payload))
    /\ accepted' = accepted + 1
    /\ immediates' = immediates + 1
    /\ last' = [Event("generate-docs", r, v, 202) EXCEPT
                    !.queuePosition = Len(jobQueue'),
                    !.activeJobs = activeJobs]
    /\ UNCHANGED <<proc, activeJobs, executing, restarting, completed, started>>

\* a handler that answers 202 without jobQueue.push when a job of the same
\* project and payload already waits
EnqueueDedup(r, v, name, payload) ==
    /\ accepted < MaxJobs
    /\ IF \E i \in 1..Len(jobQueue) :
              jobQueue[i].project = name /\ jobQueue[i].payload = payload
       THEN UNCHANGED <<jobQueue, accepted>>
       ELSE /\ jobQueue' = Append(jobQueue, Job(accepted + 1, name, payload))
            /\ accepted' = accepted + 1
    /\ immediates' = immediates + 1
    /\ last' = [Event("generate-docs", r, v, 202) EXCEPT
                    !.queuePosition = Len(jobQueue'),
                    !.activeJobs = activeJobs]
    /\ UNCHANGED <<proc, activeJobs, executing, restarting, completed, started>>

\* jobQueue.push, the 202 response, setImmediate(processQueue)
Enqueue(r, v, name, payload) ==
    /\ accepted < MaxJobs
    /\ jobQueue' = Append(jobQueue, Job(accepted + 1, name, payload))
    /\ accepted' = accepted + 1
    /\ immediates' = immediates + 1
    /\ last' = [Event("generate-docs", r, v, 202) EXCEPT
                    !.queuePosition = Len(jobQueue'),
                    !.activeJobs = activeJobs]
    /\ UNCHANGED <<proc, activeJobs, executing, restarting, completed, started>>

\* the handler, for the signature verdict v and req.body = payload
\* (a loadProjectRegistry() that fails rejects the handler's promise)
DocsHandler(r, v, payload) ==
       LET projectName == RepositoryName(payload)
           reg == RegistryForRequest(projectRegistry, registryFile)
           project == ProjectIn(reg, projectName)
           named == v = "true" /\ projectName # "" /\ Loads(reg)
       IN CASE v \in {"RangeError", "TypeError"} -> RouteThrows("generate-docs", r, v)
            [] v = "false" ->
                    Reject("generate-docs", r, v, 401) /\ UNCHANGED projectRegistry
            [] v = "true" /\ projectName = "" ->
                    Reject("generate-docs", r, v, 400) /\ UNCHANGED projectRegistry
            [] v = "true" /\ projectName # "" /\ ~Loads(reg) ->
                    RouteThrows("generate-docs", r, v)
            [] named /\ ~project.found ->
                    Reject("generate-docs", r, v, 404) /\ projectRegistry' = reg
            [] named /\ project.found /\ ~project.enabled ->
                    Reject("generate-docs", r, v, 200) /\ projectRegistry' = reg
            [] named /\ project.found /\ project.enabled ->
                    Enqueue(r, v, projectName, payload) /\ projectRegistry' = reg

\* the request passes express.json() and reaches the handler
DocsRoute(r, d) ==
    /\ proc = "up"
    /\ d.reaches
    /\ DocsHandler(r, d.verified, d.body)
    /\ UNCHANGED config

GenerateDocs(r) == DocsRoute(r, Delivered(r, env, express))

----------------------------------------------------------------------------
(* POST /webhook/restart-service (server.js 271-348) *)

\* `refs/heads/${project.default_branch}`
BranchRef(branch) == IF branch = "main" THEN "refs/heads/main" ELSE "refs/heads/?"

\* the ref comparison alone, without the merge marker
IsMergeRefOnly(payload, project) ==
    RefOf(payload) = BranchRef(project.default_branch)

\* payload.ref === `refs/heads/${project.default_branch}` &&
\* payload.head_commit?.message?.includes('Merge pull request')
IsMerge(payload, project) ==
    RefOf(payload) = BranchRef(project.default_branch) /\ HasMergeMarker(payload)

\* the second operand is evaluated only when the refs are equal, and a
\* message that is a number has no includes method: TypeError
IsMergeThrows(payload, project) ==
    /\ RefOf(payload) = BranchRef(project.default_branch)
    /\ MessageType(payload) = "number"

\* a restart that takes one of the MAX_CONCURRENT_JOBS slots
InvokeRestartCounted(r, v) ==
    /\ restarting < MaxRestarts
    /\ activeJobs < MAX_CONCURRENT_JOBS
    /\ restarting' = restarting + 1
    /\ activeJobs' = activeJobs + 1
    /\ last' = [Event("restart-service", r, v, 0) EXCEPT !.outcome = "invoked"]
    /\ UNCHANGED <<proc, jobQueue, executing, immediates, history>>

\* execAsync(`bash restart-service.sh ...`) is started; the handler waits
InvokeRestart(r, v) ==
    /\ restarting < MaxRestarts
    /\ restarting' = restarting + 1
    /\ last' = [Event("restart-service", r, v, 0) EXCEPT !.outcome = "invoked"]
    /\ UNCHANGED <<proc, queue, history>>

\* the handler, for the signature verdict v and req.body = payload
RestartHandler(r, v, payload) ==
       LET projectName == RepositoryName(payload)
           reg == RegistryForRequest(projectRegistry, registryFile)
           project == ProjectIn(reg, projectName)
           named == v = "true" /\ projectName # "" /\ Loads(reg)
           enabled == named /\ project.found /\ project.enabled
       IN CASE v \in {"RangeError", "TypeError"} -> RouteThrows("restart-service", r, v)
            [] v = "false" ->
                    Reject("restart-service", r, v, 401) /\ UNCHANGED projectRegistry
            [] v = "true" /\ projectName = "" ->
                    Reject("restart-service", r, v, 400) /\ UNCHANGED projectRegistry
            [] v = "true" /\ projectName # "" /\ ~Loads(reg) ->
                    RouteThrows("restart-service", r, v)
            [] named /\ ~(project.found /\ project.enabled) ->
                    Reject("restart-service", r, v, 404) /\ projectRegistry' = reg
            [] enabled /\ IsMergeThrows(payload, project) ->
                    RouteThrows("restart-service", r, v)
            [] enabled /\ ~IsMergeThrows(payload, project)
                 /\ ~IsMerge(payload, project) ->
                    Reject("restart-service", r, v, 200) /\ projectRegistry' = reg
            [] enabled /\ IsMerge(payload, project) ->
                    InvokeRestart(r, v) /\ projectRegistry' = reg

RestartRoute(r, d) ==
    /\ proc = "up"
    /\ d.reaches
    /\ RestartHandler(r, d.verified, d.body)
    /\ UNCHANGED config

RestartService(r) == RestartRoute(r, Delivered(r, env, express))

----------------------------------------------------------------------------
(* processQueue and processJob (server.js 103-198) *)

\* the loop without its activeJobs < MAX_CONCURRENT_JOBS condition
IterationsNoCap(len, active, cap) == len

\* the loop with the condition activeJobs + 1 < MAX_CONCURRENT_JOBS
IterationsBelowCap(len, active, cap) ==
    IF active + 1 < cap THEN Min(len, cap - active - 1) ELSE 0

\* number of iterations of the while loop of processQueue:
\* while (jobQueue.length > 0 && activeJobs < MAX_CONCURRENT_JOBS)
Iterations(len, active, cap) ==
    IF active < cap THEN Min(len, cap - active) ELSE 0

\* processJob throws before its try block when payload.after is neither a
\* string nor undefined (payload.after?.substring is not a function)
ThrowsAtEntry(job) == AfterType(job.payload) = "number"

\* the ids of the jobs of sequence q, in order
Ids(q) == [i \in 1..Len(q) |-> q[i].id]

\* jobQueue.pop() in place of jobQueue.shift()
DequeueLifo(q, n) ==
    [batch |-> [i \in 1..n |-> q[Len(q) + 1 - i]],
     rest |-> SubSeq(q, 1, Len(q) - n)]

\* one jobQueue.shift() too many when jobs remain: a job leaves the queue
\* and is not started
DequeueExtra(q, n) ==
    [batch |-> SubSeq(q, 1, n),
     rest |-> SubSeq(q, (IF n > 0 THEN n + 2 ELSE 1), Len(q))]

\* n times jobQueue.shift(): the jobs taken, in the order taken, and the rest
Dequeue(q, n) == [batch |-> SubSeq(q, 1, n), rest |-> SubSeq(q, n + 1, Len(q))]

\* a finally handler without activeJobs--
ReleaseNothing(active, k) == active

\* activeJobs after the finally handlers of k settled jobs (activeJobs--)
Release(active, k) == active - k

\* a drain that leaves the head of the queue waiting while a job of the same
\* project runs, and starts one job at a time
processQueueExclusive ==
    /\ proc = "up"
    /\ immediates > 0
    /\ LET busy == jobQueue # <<>> /\ \E job \in executing :
                                          job.project = Head(jobQueue).project
           n == IF busy THEN 0
                ELSE Min(1, Iterations(Len(jobQueue), activeJobs, MAX_CONCURRENT_JOBS))
           taken == Dequeue(jobQueue, n)
           batch == taken.batch
           thrown == {i \in 1..n : ThrowsAtEntry(batch[i])}
           pending == {batch[i] : i \in (1..n) \ thrown}
           k == Cardinality(thrown)
       IN /\ jobQueue' = taken.rest
          /\ started' = started \o Ids(batch)
          /\ executing' = executing \cup pending
          /\ activeJobs' = Release(activeJobs + n, k)
          /\ completed' = completed + k
          /\ immediates' = (immediates - 1) + k
          /\ last' = [Event("processQueue", NoRequest, "-", 0) EXCEPT
                          !.activeJobs = activeJobs + n,
                          !.queueLength = Len(jobQueue) - n]
    /\ UNCHANGED <<config, proc, projectRegistry, restarting, accepted>>

\* One setImmediate callback: the loop shifts the jobs it can start and calls
\* processJob on each.  A processJob promise that is already rejected runs
\* its catch and finally handlers (activeJobs--, setImmediate) as microtasks
\* before any other callback.
processQueue ==
    /\ proc = "up"
    /\ immediates > 0
    /\ LET n == Iterations(Len(jobQueue), activeJobs, MAX_CONCURRENT_JOBS)
           taken == Dequeue(jobQueue, n)
           batch == taken.batch
           thrown == {i \in 1..n : ThrowsAtEntry(batch[i])}
           pending == {batch[i] : i \in (1..n) \ thrown}
           k == Cardinality(thrown)
       IN /\ jobQueue' = taken.rest
          /\ started' = started \o Ids(batch)
          /\ executing' = executing \cup pending
          /\ activeJobs' = Release(activeJobs + n, k)
          /\ completed' = completed + k
          /\ immediates' = (immediates - 1) + k
          /\ last' = [Event("processQueue", NoRequest, "-", 0) EXCEPT
                          !.activeJobs = activeJobs + n,
                          !.queueLength = Len(jobQueue) - n]
    /\ UNCHANGED <<config, proc, projectRegistry, restarting, accepted>>

\* how the command started by processJob can end
Outcomes == {"exit0", "exitN", "timeout"}

\* the exit code of a command that ends as "exitN"
EXIT_N == "1"

\* the cap of the substring(0, 500) calls of processJob
SUBSTRING_CAP == 500

\* lengths of the text a command writes to stdout and to stderr
OutputLens == {0, SUBSTRING_CAP, MaxOutput}
Outputs == {[stdout |-> a, stderr |-> b] : a, b \in OutputLens}

\* a command that writes nothing
SilentOutputs == {[stdout |-> 0, stderr |-> 0]}

\* execAsync (child_process.exec with a timeout, promisified): fulfilled
\* for exit code 0; rejected with an error whose code is the exit code, or
\* whose code is null and killed is true when the timeout killed the
\* command.  timeoutText: error.message includes 'timeout'.  stdout and
\* stderr are the lengths of result.stdout / result.stderr, or of
\* error.stdout / error.stderr.
ExecAsync(outcome, out) ==
    CASE outcome = "exit0" ->
            [rejected |-> FALSE, code |-> "null", killed |-> FALSE,
             timeoutText |-> FALSE, stdout |-> out.stdout, stderr |-> out.stderr]
      [] outcome = "exitN" ->
            [rejected |-> TRUE, code |-> EXIT_N, killed |-> FALSE,
             timeoutText |-> FALSE, stdout |-> out.stdout, stderr |-> out.stderr]
      [] outcome = "timeout" ->
            [rejected |-> TRUE, code |-> "null", killed |-> TRUE,
             timeoutText |-> FALSE, stdout |-> out.stdout, stderr |-> out.stderr]

\* the catch block with exitCode = isTimeout ? 'TIMEOUT' : 'UNKNOWN'
processJobWithoutCode(x) ==
    IF ~x.rejected THEN [success |-> TRUE, exitCode |-> "-"]
    ELSE [success |-> FALSE,
          exitCode |-> IF x.timeoutText \/ x.killed THEN "TIMEOUT" ELSE "UNKNOWN"]

\* the catch block with isTimeout = error.message.includes('timeout') alone
processJobMessageOnly(x) ==
    IF ~x.rejected THEN [success |-> TRUE, exitCode |-> "-"]
    ELSE [success |-> FALSE,
          exitCode |-> IF x.code # "null" THEN x.code
                       ELSE IF x.timeoutText THEN "TIMEOUT" ELSE "UNKNOWN"]

\* what processJob returns for the settled execAsync promise x
\* (server.js 142-146 and 148-168); exitCode "-" stands for no such field
processJob(x) ==
    IF ~x.rejected THEN [success |-> TRUE, exitCode |-> "-"]
    ELSE LET isTimeout == x.timeoutText \/ x.killed
         IN [success |-> FALSE,
             exitCode |-> IF x.code # "null" THEN x.code
                          ELSE IF isTimeout THEN "TIMEOUT" ELSE "UNKNOWN"]

\* length of text.substring(0, SUBSTRING_CAP) for a text of length len
Substring(len) == Min(len, SUBSTRING_CAP)

\* length of 'Command failed: ' and of the newline, between which
\* error.message holds the command line and after which it holds the whole
\* of stderr
MESSAGE_HEAD == 17

\* a lower bound of error.message.length: the command line is not counted
MessageLen(x) == MESSAGE_HEAD + x.stderr

\* the lengths of the texts processJob logs and returns for the settled
\* execAsync promise x: the output / error fields of the returned outcome,
\* and the stdout, stderr and error fields of its log entries
Captured(x) ==
    IF ~x.rejected
    THEN [output |-> x.stdout, error |-> 0,
          logStdout |-> Substring(x.stdout),
          logStderr |-> Substring(x.stderr),
          logError |-> 0]
    ELSE [output |-> 0, error |-> MessageLen(x),
          logStdout |-> Substring(x.stdout),
          logStderr |-> Substring(x.stderr),
          logError |-> MessageLen(x)]

\* a job's outcome as the event records it
JobDone(outcome, x) ==
    [Event("job-done", NoRequest, "-", 0) EXCEPT
        !.outcome = outcome,
        !.success = processJob(x).success,
        !.exitCode = processJob(x).exitCode,
        !.captured = Captured(x)]

\* a finally handler that runs activeJobs-- only for a successful job
JobSettlesLeak(job, outcome, out) ==
    /\ proc = "up"
    /\ job \in executing
    /\ executing' = executing \ {job}
    /\ activeJobs' = IF outcome = "exit0" THEN Release(activeJobs, 1) ELSE activeJobs
    /\ immediates' = immediates + 1
    /\ completed' = completed + 1
    /\ last' = JobDone(outcome, ExecAsync(outcome, out))
    /\ UNCHANGED <<config, proc, projectRegistry, jobQueue, restarting, accepted, started>>

\* a finally handler without setImmediate(processQueue)
JobSettlesNoDrain(job, outcome, out) ==
    /\ proc = "up"
    /\ job \in executing
    /\ executing' = executing \ {job}
    /\ activeJobs' = Release(activeJobs, 1)
    /\ completed' = completed + 1
    /\ last' = JobDone(outcome, ExecAsync(outcome, out))
    /\ UNCHANGED <<config, proc, projectRegistry, jobQueue, immediates, restarting, accepted, started>>

\* a finally handler that pushes a job whose outcome is not success back
\* onto jobQueue
JobSettlesRetry(job, outcome, out) ==
    /\ proc = "up"
    /\ job \in executing
    /\ executing' = executing \ {job}
    /\ activeJobs' = Release(activeJobs, 1)
    /\ immediates' = immediates + 1
    /\ IF outcome = "exit0"
       THEN completed' = completed + 1 /\ jobQueue' = jobQueue
       ELSE completed' = completed /\ jobQueue' = Append(jobQueue, job)
    /\ last' = JobDone(outcome, ExecAsync(outcome, out))
    /\ UNCHANGED <<config, proc, projectRegistry, restarting, accepted, started>>

\* The command of an executing job ends: processJob returns its outcome, then
\* the finally handler runs: activeJobs--, setImmediate(processQueue)
JobSettles(job, outcome, out) ==
    /\ proc = "up"
    /\ job \in executing
    /\ executing' = executing \ {job}
    /\ activeJobs' = Release(activeJobs, 1)
    /\ immediates' = immediates + 1
    /\ completed' = completed + 1
    /\ last' = JobDone(outcome, ExecAsync(outcome, out))
    /\ UNCHANGED <<config, proc, projectRegistry, jobQueue, restarting, accepted, started>>

----------------------------------------------------------------------------
(* POST /webhook/restart-service: the end of restart-service.sh *)

\* how restart-service.sh can end: execAsync is called without a timeout
RestartOutcomes == {"exit0", "exitN"}

\* a handler that answers 200 {success: true} however the script ended
RestartResponseAlwaysOk(x) == [status |-> 200, success |-> TRUE]

\* the response for the settled execAsync promise x (server.js 325-347):
\* res.json({success: true, ...}) when it is fulfilled,
\* res.status(500).json({success: false, ...}) from the catch block
RestartResponse(x) ==
    IF ~x.rejected THEN [status |-> 200, success |-> TRUE]
    ELSE [status |-> 500, success |-> FALSE]

\* restart-service.sh ends and the handler, which has waited for it, answers
RestartDone ==
    /\ proc = "up"
    /\ restarting > 0
    /\ restarting' = restarting - 1
    /\ \E outcome \in RestartOutcomes, out \in SilentOutputs :
          LET response == RestartResponse(ExecAsync(outcome, out))
          IN last' = [Event("restart-done", NoRequest, "-", response.status)
                         EXCEPT !.outcome = outcome,
                                !.success = response.success]
    /\ UNCHANGED <<config, proc, projectRegistry, queue, history>>

----------------------------------------------------------------------------
(* The gateway and its scheduler *)

Next ==
    \/ Start
    \/ Stop
    \/ Health
    \/ \E r \in DocsRequests : GenerateDocs(r)
    \/ \E r \in RestartRequests : RestartService(r)
    \/ RestartDone
    \/ processQueue
    \/ \E job \in executing, outcome \in Outcomes, out \in SilentOutputs :
          JobSettles(job, outcome, out)

Spec == Init /\ [][Next]_vars

----------------------------------------------------------------------------
(* The signature gate alone: signed requests, and what one flipped bit of  *)
(* the body or of the header does to verifyWebhookSignature                *)

Blank == {<<>>, <<SPACE>>}

\* members of the bodies signed here: none or the enabled project's run,
\* then no "after" member or one with a string of StrValues
VerifyCores ==
    {<<>>, <<M_ENABLED>>}
      \cup {<<AFTER_FIRST>> \o v \o <<QUOTE>> : v \in StrValues}
      \cup {<<M_ENABLED, AFTER_NEXT>> \o v \o <<QUOTE>> : v \in StrValues}

\* the empty body, and every object of VerifyCores, with or without a blank
\* before the object
VerifyBodies ==
    {<<>>} \cup {w \o Obj(c) : w \in Blank, c \in VerifyCores}

\* requests whose header is the digest of the exact bytes sent, under K1
SignedRequests ==
    {Request(ct, TRUE, b, TRUE, Sign(k, b)) :
        ct \in {"json", "text"}, b \in VerifyBodies, k \in {K1}}
      \cup {Request("json", FALSE, <<>>, TRUE, Sign(K1, <<>>))}

\* a header value reaches req.headers if the HTTP parser accepts its
\* characters (no control character); blanks around it are dropped, and each
\* byte becomes the character of the same code
AcceptedChar(c) == c = 9 \/ (c >= 32 /\ c # 127)
AcceptedHeader(raw) == \A i \in 1..Len(raw) : AcceptedChar(raw[i])

IsOws(c) == c = 32 \/ c = 9

RECURSIVE TrimLeft(_)
TrimLeft(t) == IF t # <<>> /\ IsOws(Head(t)) THEN TrimLeft(Tail(t)) ELSE t

RECURSIVE TrimRight(_)
TrimRight(t) ==
    IF t # <<>> /\ IsOws(Last(t)) THEN TrimRight(SubSeq(t, 1, Len(t) - 1)) ELSE t

HeaderValue(raw) == TrimRight(TrimLeft(raw))

InitVerify ==
    /\ env \in Environments
    /\ express \in ExpressMajors
    /\ MAX_CONCURRENT_JOBS \in {MaxCap}
    /\ proc = "up"
    /\ jobQueue = <<>>
    /\ activeJobs = 0
    /\ executing = {}
    /\ immediates = 0
    /\ restarting = 0
    /\ accepted = 0
    /\ completed = 0
    /\ started = <<>>
    /\ \E r \in SignedRequests : last = Event("signed", r, "-", 0)
    /\ registryFile = README_REGISTRY
    /\ projectRegistry = README_REGISTRY
    /\ cartographer = Idle

\* verifyWebhookSignature on request r, derived from the signed request
Verified(op, r, d) ==
    /\ d.reaches
    /\ last' = [Event(op, r, d.verified, 0) EXCEPT !.base = last.req]
    /\ UNCHANGED <<config, proc, projectRegistry, queue, restarting, history>>

Verify(op, r) == Verified(op, r, Delivery(r, env, express))

VerifyAsSent ==
    /\ last.op = "signed"
    /\ Verify("verify", last.req)

VerifyBodyFlipped(i, k) ==
    /\ last.op = "signed"
    /\ i \in 1..Len(last.req.bytes)
    /\ ~IsRun(last.req.bytes[i])
    /\ Verify("verify-body-flip",
              [last.req EXCEPT !.bytes = FlipAt(last.req.bytes, i, k)])

VerifySigFlipped(i, k) ==
    /\ last.op = "signed"
    /\ i \in 1..Len(last.req.sig)
    /\ LET raw == FlipAt(last.req.sig, i, k)
       IN /\ AcceptedHeader(raw)
          /\ Verify("verify-sig-flip", [last.req EXCEPT !.sig = HeaderValue(raw)])

\* the same request with another header: none, or 'sha256=invalid'
VerifyOtherHeader ==
    /\ last.op = "signed"
    /\ \/ Verify("verify-no-header", [last.req EXCEPT !.hasSig = FALSE, !.sig = <<>>])
       \/ Verify("verify-invalid-header", [last.req EXCEPT !.sig = SHA256_INVALID])

Bits == 0..7
MaxHeaderLen == Len(SHA256_PREFIX) + 3 * (SecretLen + DigestItems)
MaxBodyLen == 6 + MaxStr

NextVerify ==
    \/ VerifyAsSent
    \/ \E i \in 1..MaxBodyLen, k \in Bits : VerifyBodyFlipped(i, k)
    \/ \E i \in 1..MaxHeaderLen, k \in Bits : VerifySigFlipped(i, k)
    \/ VerifyOtherHeader

VerifySpec == InitVerify /\ [][NextVerify]_vars

----------------------------------------------------------------------------
(* The scheduler under a fair event loop: a scheduled processQueue callback *)
(* runs, and a started command ends (by itself or by its timeout).  Only    *)
(* GET /health and the requests that change the queue or end the process    *)
(* are sent.                                                                *)

\* signed pushes of the enabled project (one whose job makes processJob
\* throw at entry), and the request with the header 'sha256=invalid'
LiveRequests ==
    {r \in DocsRequests :
        \/ r.sig = SHA256_INVALID
        \/ /\ r.ctype = "json"
           /\ r.bytes \in {Obj(<<M_ENABLED>>), Obj(<<M_NUMAFTER>>)}
           /\ r.sig = Sign(K1, r.bytes)}

LiveNext ==
    \/ Start
    \/ Stop
    \/ Health
    \/ \E r \in LiveRequests : GenerateDocs(r)
    \/ processQueue
    \/ \E job \in executing, outcome \in Outcomes, out \in SilentOutputs :
          JobSettles(job, outcome, out)

\* a deployment whose WEBHOOK_SECRET is set
LiveInit ==
    /\ Init
    /\ env.WEBHOOK_SECRET # <<>>

LiveSpec ==
    /\ LiveInit
    /\ [][LiveNext]_vars
    /\ WF_vars(processQueue)
    /\ WF_vars(\E job \in executing, outcome \in Outcomes, out \in SilentOutputs :
                    JobSettles(job, outcome, out))

----------------------------------------------------------------------------
(* What processJob keeps and logs of the output of its command: commands    *)
(* that write up to MaxOutput characters to stdout and to stderr            *)

CaptureNext ==
    \/ Start
    \/ Stop
    \/ \E r \in LiveRequests : GenerateDocs(r)
    \/ processQueue
    \/ \E job \in executing, outcome \in Outcomes, out \in Outputs :
          JobSettles(job, outcome, out)

CaptureSpec == LiveInit /\ [][CaptureNext]_vars

----------------------------------------------------------------------------
(* The registry over process lifetimes: project-registry.json changes on    *)
(* disk while processes start, serve and end                                *)

\* an operator (or a deployment) rewrites project-registry.json
EditRegistry ==
    /\ \E file \in RegistryFiles :
          /\ file # registryFile
          /\ registryFile' = file
    /\ last' = Event("edit-registry", NoRequest, "-", 0)
    /\ UNCHANGED <<env, express, MAX_CONCURRENT_JOBS, proc, projectRegistry,
                   queue, restarting, history, cartographer>>

\* signed webhooks of the two registered projects
RegistryRuns == {M_ENABLED, M_DISABLED, M_MERGE}

RegistryRequests ==
    {r \in GatewayRequests :
        /\ r.ctype = "json"
        /\ \E m \in RegistryRuns : r.bytes = Obj(<<m>>)
        /\ r.sig = Sign(K1, r.bytes)}

RegistryNext ==
    \/ Start
    \/ Stop
    \/ EditRegistry
    \/ \E r \in RegistryRequests \cap DocsRequests : GenerateDocs(r)
    \/ \E r \in RegistryRequests \cap RestartRequests : RestartService(r)
    \/ RestartDone
    \/ processQueue
    \/ \E job \in executing, outcome \in Outcomes, out \in SilentOutputs :
          JobSettles(job, outcome, out)

\* a deployment that runs one job at a time
RegistryInit ==
    /\ LiveInit
    /\ MAX_CONCURRENT_JOBS = 1

RegistrySpec == RegistryInit /\ [][RegistryNext]_vars

----------------------------------------------------------------------------
(* The senders of the NGINX guide: its two example requests, beside the     *)
(* GitHub webhooks of the enabled project                                   *)

GuideNext ==
    \/ Start
    \/ Stop
    \/ \E r \in LiveRequests \cup {GuideDocs} : GenerateDocs(r)
    \/ \E r \in (RegistryRequests \cap RestartRequests) \cup {GuideRestart} :
          RestartService(r)
    \/ RestartDone
    \/ processQueue
    \/ \E job \in executing, outcome \in Outcomes, out \in SilentOutputs :
          JobSettles(job, outcome, out)

GuideSpec == LiveInit /\ [][GuideNext]_vars

----------------------------------------------------------------------------
(* The concurrency cap as the process reads it from its environment        *)
(* (server.js 47): parseInt(process.env.MAX_CONCURRENT_JOBS || '2')         *)

\* NaN.  No count is less than NaN; it is held as a number below every
\* count and every parsed number of the model, so that
\* activeJobs < MAX_CONCURRENT_JOBS, the condition of the loop of
\* processQueue, is false for it
NaN == 0 - 2 ^ 30

ZERO == 48
MINUS == 45
PLUS == 43

\* the characters of the texts: '0', '2', '-', 'a'
CapChars == {ZERO, ZERO + 2, MINUS, 97}

\* process.env.MAX_CONCURRENT_JOBS: unset, or a text
CapEnv ==
    {[set |-> FALSE, text |-> <<>>]}
      \cup {[set |-> TRUE, text |-> t] :
                t \in UNION {[1..n -> CapChars] : n \in 0..MaxCapText}}

\* process.env.MAX_CONCURRENT_JOBS || '2': undefined and '' are falsy
OrDefault(v) == IF ~v.set \/ v.text = <<>> THEN <<ZERO + 2>> ELSE v.text

IsDigit(c) == c >= ZERO /\ c <= ZERO + 9

\* the number of decimal digits of t from position i on
RECURSIVE DigitCount(_, _)
DigitCount(t, i) ==
    IF i <= Len(t) /\ IsDigit(t[i]) THEN 1 + DigitCount(t, i + 1) ELSE 0

\* the value of the n decimal digits of t that end at position i
RECURSIVE DigitsValue(_, _, _)
DigitsValue(t, i, n) ==
    IF n = 0 THEN 0 ELSE 10 * DigitsValue(t, i - 1, n - 1) + (t[i] - ZERO)

\* parseInt(t) without a radix, for a text without the prefix 0x: leading
\* white space is skipped, a sign is taken, then the decimal digits up to
\* the first other character; NaN when there is no digit
ParseInt(t) ==
    LET i == SkipWs(t, 1)
        signed == At(t, i) \in {MINUS, PLUS}
        from == IF signed THEN i + 1 ELSE i
        n == DigitCount(t, from)
        magnitude == DigitsValue(t, from + n - 1, n)
    IN IF n = 0 THEN NaN
       ELSE IF At(t, i) = MINUS THEN 0 - magnitude ELSE magnitude

\* a process whose WEBHOOK_SECRET is set, started with any of the texts
CapInit ==
    /\ env \in Environments
    /\ env.WEBHOOK_SECRET # <<>>
    /\ express \in ExpressMajors
    /\ MAX_CONCURRENT_JOBS \in {ParseInt(OrDefault(v)) : v \in CapEnv}
    /\ proc = "down"
    /\ jobQueue = <<>>
    /\ activeJobs = 0
    /\ executing = {}
    /\ immediates = 0
    /\ restarting = 0
    /\ accepted = 0
    /\ completed = 0
    /\ started = <<>>
    /\ last = Event("boot", NoRequest, "-", 0)
    /\ registryFile = README_REGISTRY
    /\ projectRegistry = NotLoaded
    /\ cartographer = Idle

CapSpec == CapInit /\ [][CaptureNext]_vars

----------------------------------------------------------------------------
(* A run of invoke-cartographer-programmatic.mjs: main() (241-298)          *)

\* the variables of the gateway process
gateway == <<env, express, MAX_CONCURRENT_JOBS, proc, jobQueue, activeJobs,
             executing, immediates, restarting, accepted, completed, started,
             last, registryFile, projectRegistry>>

\* control passes to the catch block of main() with the exception of step
Raise(step) == cartographer' = [cartographer EXCEPT !.pc = "catch", !.raised = step]

\* Step 1 (247-248): runScanner() resolves with the scanner's output or with
\* the fallback analysis; scanResult.files?.length raises TypeError for a
\* scanResult that is null
runScanner ==
    /\ cartographer.pc = "scan"
    /\ \E scanResult \in {ScanResult(cartographer.found), ScanNull} :
          IF scanResult.kind = "null"
          THEN Raise("scan")
          ELSE cartographer' = [cartographer EXCEPT !.pc = "group",
                                                    !.scanResult = scanResult]
    /\ UNCHANGED gateway

\* Step 2 (251-252)
Group ==
    /\ cartographer.pc = "group"
    /\ cartographer' = [cartographer EXCEPT
                            !.pc = "analyze",
                            !.groups = groupFiles(cartographer.scanResult)]
    /\ UNCHANGED gateway

\* the loop of main() over the groups, with an analyzeGroup that lets the
\* exception of the API call pass
analyzeGroupRaising(ok) ==
    /\ cartographer.pc = "analyze"
    /\ Len(cartographer.analyses) < Len(cartographer.groups)
    /\ IF ok
       THEN cartographer' = [cartographer EXCEPT
                                !.analyses = Append(cartographer.analyses, "text")]
       ELSE Raise("analyze")
    /\ UNCHANGED gateway

\* Steps 3-4 (255-259), one iteration: analyzeGroup returns the text of the
\* response, or, when the API call raises, catches the error and returns
\* `Analysis failed for group ${groupIndex + 1}` (166-180)
analyzeGroup(ok) ==
    /\ cartographer.pc = "analyze"
    /\ Len(cartographer.analyses) < Len(cartographer.groups)
    /\ cartographer' = [cartographer EXCEPT
                            !.analyses = Append(cartographer.analyses,
                                                IF ok THEN "text" ELSE "failed")]
    /\ UNCHANGED gateway

\* Step 5 (262): synthesizeDocumentation logs the error of the API call and
\* throws it again (223-237)
synthesizeDocumentation(ok) ==
    /\ cartographer.pc = "analyze"
    /\ Len(cartographer.analyses) = Len(cartographer.groups)
    /\ IF ok
       THEN cartographer' = [cartographer EXCEPT !.pc = "write"]
       ELSE Raise("synthesize")
    /\ UNCHANGED gateway

\* Step 6 (265-271): mkdirSync and writeFileSync(codebaseMapPath, ...)
WriteCodebaseMap ==
    /\ cartographer.pc = "write"
    /\ IF cartographer.docsWritable
       THEN cartographer' = [cartographer EXCEPT !.pc = "summary", !.map = TRUE]
       ELSE Raise("write-map")
    /\ UNCHANGED gateway

\* writeFileSync(outputFile, summary), then process.exit(0) (288-291)
WriteSummary ==
    /\ cartographer.pc = "summary"
    /\ IF cartographer.outputWritable
       THEN cartographer' = [cartographer EXCEPT
                                !.pc = "exited", !.output = "summary", !.exit = "0"]
       ELSE Raise("write-summary")
    /\ UNCHANGED gateway

\* the catch block (292-297): writeFileSync(outputFile, errorMsg), then
\* process.exit(1).  When this write raises, main() rejects, nothing handles
\* the rejection and Node (16 and later) ends the process with exit code 1.
Catch ==
    /\ cartographer.pc = "catch"
    /\ cartographer' = [cartographer EXCEPT
                            !.pc = "exited",
                            !.output = IF cartographer.outputWritable
                                       THEN "error" ELSE cartographer.output,
                            !.exit = "1"]
    /\ UNCHANGED gateway

CartographerNext ==
    \/ runScanner
    \/ Group
    \/ \E ok \in BOOLEAN : analyzeGroup(ok)
    \/ \E ok \in BOOLEAN : synthesizeDocumentation(ok)
    \/ WriteCodebaseMap
    \/ WriteSummary
    \/ Catch

\* a run for any scanned files, with the gateway not started
CartographerInit ==
    /\ env = [WEBHOOK_SECRET |-> K1, GITHUB_WEBHOOK_SECRET |-> <<>>]
    /\ express = 5
    /\ MAX_CONCURRENT_JOBS = 1
    /\ proc = "down"
    /\ jobQueue = <<>>
    /\ activeJobs = 0
    /\ executing = {}
    /\ immediates = 0
    /\ restarting = 0
    /\ accepted = 0
    /\ completed = 0
    /\ started = <<>>
    /\ last = Event("boot", NoRequest, "-", 0)
    /\ registryFile = README_REGISTRY
    /\ projectRegistry = NotLoaded
    /\ \E files \in ScannedFiles, outputWritable, docsWritable \in BOOLEAN :
          cartographer = Run(files, outputWritable, docsWritable)

CartographerSpec == CartographerInit /\ [][CartographerNext]_vars

----------------------------------------------------------------------------
(* Properties of the scheduler (Spec, LiveSpec) *)

\* C1: in every reachable state, after any interleaving of accepted
\* webhooks, drains and job completions, 0 <= activeJobs <= MAX_CONCURRENT_JOBS
C1_ActiveJobsWithinCap ==
    0 <= activeJobs /\ activeJobs <= MAX_CONCURRENT_JOBS

\* a drain has stopped at the cap with jobs still waiting
C1_Witness ==
    /\ last.op = "processQueue"
    /\ activeJobs = MAX_CONCURRENT_JOBS
    /\ Len(jobQueue) > 0

\* C2: for every cap, jobs begin execution in enqueue order (ids number the
\* jobs in the order they were pushed): the ids of the started jobs ascend,
\* every waiting job was pushed after every started one, and the queue holds
\* the waiting jobs in the order pushed
C2_StartInEnqueueOrder ==
    /\ \A i, j \in 1..Len(started) : i < j => started[i] < started[j]
    /\ \A i \in 1..Len(started), j \in 1..Len(jobQueue) :
            started[i] < jobQueue[j].id
    /\ \A i, j \in 1..Len(jobQueue) : i < j => jobQueue[i].id < jobQueue[j].id

\* two jobs started by one drain and both still running
C2_Witness ==
    /\ Len(started) >= 2
    /\ Cardinality(executing) >= 2

\* C3: every accepted job is, at any time, either once in jobQueue or once
\* among the started jobs, never both and never neither; and a step that
\* shortens jobQueue of a running process is a drain that takes the jobs
\* from its head, starts exactly those, and has counted each in activeJobs
C3_RemovedExactlyWhenStarted ==
    /\ [](/\ \A id \in 1..accepted :
                Cardinality({i \in 1..Len(jobQueue) : jobQueue[i].id = id})
                  + Cardinality({i \in 1..Len(started) : started[i] = id}) = 1
          /\ \A job \in executing : \E i \in 1..Len(started) : started[i] = job.id)
    /\ [][(proc' = "up" /\ jobQueue' # jobQueue /\ Len(jobQueue') <= Len(jobQueue))
            => \E n \in 1..Len(jobQueue) :
                  /\ jobQueue' = SubSeq(jobQueue, n + 1, Len(jobQueue))
                  /\ started' = started \o Ids(SubSeq(jobQueue, 1, n))
                  /\ last'.op = "processQueue"
                  /\ last'.activeJobs = activeJobs + n]_vars

\* a drain has started a job while another one stays in the queue
C3_Witness ==
    /\ last.op = "processQueue"
    /\ Len(started) >= 1
    /\ Len(jobQueue) >= 1
    /\ started[Len(started)] + 1 = jobQueue[1].id

\* C4: under a fair event loop, with a cap of at least 1 and commands that
\* end, every job that waits in jobQueue begins execution, unless the
\* process ends first (the queue is not persistent)
C4_AcceptedJobsStart ==
    \A id \in 1..MaxJobs :
        (\E i \in 1..Len(jobQueue) : jobQueue[i].id = id)
            ~> ((\E i \in 1..Len(started) : started[i] = id) \/ proc = "down")

\* with a cap of 1, the second job has started after the first one completed
C4_Witness ==
    /\ MAX_CONCURRENT_JOBS = 1
    /\ started = <<1, 2>>
    /\ completed >= 1

\* C5 as stated: when more jobs were accepted than the cap, activeJobs equals
\* the cap in every state in which jobQueue is non-empty
C5_ExactlyCapWhilePending ==
    (accepted > MAX_CONCURRENT_JOBS /\ Len(jobQueue) > 0)
        => activeJobs = MAX_CONCURRENT_JOBS

\* C5 amended: when more jobs were accepted than the cap, activeJobs equals
\* the cap in every state in which jobQueue is non-empty and no processQueue
\* callback is scheduled
C5_ExactlyCapOnceDrained ==
    (accepted > MAX_CONCURRENT_JOBS /\ Len(jobQueue) > 0 /\ immediates = 0)
        => activeJobs = MAX_CONCURRENT_JOBS

\* every scheduled drain has run, jobs wait, and the cap is in use
C5_Witness ==
    /\ accepted > MAX_CONCURRENT_JOBS
    /\ Len(jobQueue) > 0
    /\ immediates = 0
    /\ activeJobs = MAX_CONCURRENT_JOBS

\* C6: in every state a handler can observe, and in what GET /health
\* reports, accepted = queueLength + activeJobs + completed, also when
\* processJob rejected instead of returning an outcome
C6_JobsAccountedFor ==
    /\ accepted = Len(jobQueue) + activeJobs + completed
    /\ last.op = "health" =>
            accepted = last.queueLength + last.activeJobs + completed

\* a drain in which processJob rejected at once: the job was counted in
\* activeJobs during the loop and is completed when the callback ends
C6_Witness ==
    /\ last.op = "processQueue"
    /\ last.activeJobs > activeJobs
    /\ completed > 0

----------------------------------------------------------------------------
(* Properties of the signature gate *)

\* C7: for every body (also an empty one, also one of a non-JSON content
\* type) and every non-empty secret, the request whose header is 'sha256='
\* and the hex HMAC-SHA256 of the bytes sent is verified as true
C7_SignedRequestAccepted ==
    (/\ last.op = "verify"
     /\ SecretOf(env) # <<>>
     /\ last.req.sig = Sign(SecretOf(env), last.req.bytes))
        => last.verified = "true"

\* C8: a POST to either webhook whose header is present and is not the
\* digest of the bytes sent is verified as false and answered 401; the
\* process keeps running, no job is pushed, no restart is invoked
C8_WrongSignatureRejected ==
    [][(/\ last'.op \in {"generate-docs", "restart-service"}
        /\ last'.req.hasSig
        /\ last'.req.sig # Sign(SecretOf(env), last'.req.bytes))
          => (/\ last'.verified = "false"
              /\ last'.status = 401
              /\ proc' = "up"
              /\ jobQueue' = jobQueue
              /\ accepted' = accepted
              /\ restarting' = restarting)]_vars

\* C9: for a correctly signed request, one flipped bit of the body or of the
\* header makes verifyWebhookSignature return false
C9_BitFlipRejected ==
    (/\ last.op \in {"verify-body-flip", "verify-sig-flip"}
     /\ SecretOf(env) # <<>>
     /\ last.base.sig = Sign(SecretOf(env), last.base.bytes))
        => last.verified = "false"

C11_NoSecretRejectsAll ==
    (env.WEBHOOK_SECRET = <<>> /\ env.GITHUB_WEBHOOK_SECRET = <<>>) =>
        /\ accepted = 0
        /\ restarting = 0
        /\ last.op \in {"generate-docs", "restart-service"} =>
                (last.verified = "false" /\ last.status = 401)

\* without a secret, the header 'sha256=invalid' is answered 401
C11_Witness ==
    /\ env.WEBHOOK_SECRET = <<>>
    /\ env.GITHUB_WEBHOOK_SECRET = <<>>
    /\ last.op = "restart-service"
    /\ last.req.sig = SHA256_INVALID
    /\ last.status = 401

\* C12: for every request whose signature is verified (header present,
\* secret set), the text given to the HMAC is defined and its bytes are the
\* bytes of the body as received
C12_DigestOverRawBody ==
    (/\ last.op = "verify"
     /\ last.req.hasSig
     /\ SecretOf(env) # <<>>)
        => /\ PayloadOf(last.req, express).defined
           /\ Utf8Encode(PayloadOf(last.req, express).text) = last.req.bytes

\* the status the claimed order of checks gives a request whose signature
\* verdict is v and whose body is payload
ClaimedDocsStatus(v, payload) ==
    IF v # "true" THEN 401
    ELSE IF RepositoryName(payload) = "" THEN 400
    ELSE IF RepositoryName(payload) \notin RegistryKeys THEN 404
    ELSE IF ~ProjectOf(RepositoryName(payload)).enabled THEN 200
    ELSE 202

\* C13: the status of a /webhook/generate-docs response whose signature was
\* verified as true or false is 401 for false, else 400 without a repository
\* name, else 404 for a name that is no key of the registry, else 200 for a
\* disabled project, else 202
C13_StatusByFirstFailingCheck ==
    (last.op = "generate-docs" /\ last.verified \in {"true", "false"})
        => last.status = ClaimedDocsStatus(last.verified, ReqBody(last.req, express))

----------------------------------------------------------------------------
(* Properties of the handlers *)

\* C14: a /webhook/generate-docs request answered 401, 400, 404 or 200
\* leaves jobQueue and activeJobs unchanged and schedules no drain; a 202
\* appends exactly one job; and jobQueue grows in no other step
C14_OnlyAcceptedRequestsEnqueue ==
    [][/\ (last'.op = "generate-docs" /\ last'.status \in {401, 400, 404, 200})
            => UNCHANGED <<jobQueue, activeJobs, immediates, accepted>>
       /\ (last'.op = "generate-docs" /\ last'.status = 202)
            => /\ Len(jobQueue') = Len(jobQueue) + 1
               /\ SubSeq(jobQueue', 1, Len(jobQueue)) = jobQueue
       /\ Len(jobQueue') > Len(jobQueue)
            => (last'.op = "generate-docs" /\ last'.status = 202)]_vars

\* a webhook of the disabled project is answered 200 while a job waits
C14_Witness ==
    /\ last.op = "generate-docs"
    /\ last.status = 200
    /\ RepositoryName(ReqBody(last.req, express)) = "wish-legacy"
    /\ Len(jobQueue) > 0

\* a request the gateway accepts: verified, for an enabled project
ValidSubmission(r) ==
    /\ Delivered(r, env, express).verified = "true"
    /\ ProjectOf(RepositoryName(Delivered(r, env, express).body)).enabled

\* every valid submission can be answered 202 in the current state (until
\* the process has accepted MaxJobs jobs)
SubmissionAccepted ==
    \A r \in DocsRequests :
        (ValidSubmission(r) /\ accepted < MaxJobs)
            => ENABLED (GenerateDocs(r) /\ last'.status = 202)

\* C15: a 202 appends the job at the tail of jobQueue and carries
\* queuePosition = the job's position in jobQueue = the number of accepted
\* jobs not yet started, which is 1 for an empty queue; and a valid
\* submission is accepted at every queue depth
C15_QueuePositionIsTail ==
    /\ [][(last'.op = "generate-docs" /\ last'.status = 202)
            => /\ SubSeq(jobQueue', 1, Len(jobQueue)) = jobQueue
               /\ last'.queuePosition = Len(jobQueue) + 1
               /\ last'.queuePosition = Len(jobQueue')
               /\ jobQueue'[last'.queuePosition].id = accepted'
               /\ last'.queuePosition = accepted' - Len(started')
               /\ jobQueue = <<>> => last'.queuePosition = 1]_vars
    /\ [](proc = "up" => SubmissionAccepted)

\* a submission accepted behind a waiting job is told position 2
C15_Witness ==
    /\ last.op = "generate-docs"
    /\ last.status = 202
    /\ last.queuePosition = 2
    /\ Len(jobQueue) = 2

\* C16: the step that answers 202 pushes the job and schedules one drain; it
\* starts no job, completes none and leaves activeJobs as it is, so the job
\* is in jobQueue and not started when the response is sent
C16_RespondsBeforeExecution ==
    [][(last'.op = "generate-docs" /\ last'.status = 202)
          => /\ started' = started
             /\ executing' = executing
             /\ activeJobs' = activeJobs
             /\ completed' = completed
             /\ immediates' = immediates + 1
             /\ \E i \in 1..Len(jobQueue') : jobQueue'[i].id = accepted'
             /\ \A i \in 1..Len(started') : started'[i] # accepted']_vars

\* 202 is sent by an idle process: the job waits for the scheduled drain
C16_Witness ==
    /\ last.op = "generate-docs"
    /\ last.status = 202
    /\ activeJobs = 0
    /\ started = <<>>
    /\ Len(jobQueue) = 1
    /\ immediates = 1

\* C18: GET /health answers 200 with the current activeJobs and the current
\* length of jobQueue, changes neither and schedules no drain, and is
\* answered in every state of a running process
C18_HealthReportsWithoutEffect ==
    /\ [][last'.op = "health"
            => /\ last'.status = 200
               /\ last'.activeJobs = activeJobs
               /\ last'.queueLength = Len(jobQueue)
               /\ UNCHANGED <<jobQueue, activeJobs, executing, immediates>>]_vars
    /\ [](proc = "up" => ENABLED Health)

\* GET /health answers while jobs run and wait
C18_Witness ==
    /\ last.op = "health"
    /\ last.status = 200
    /\ last.activeJobs > 0
    /\ last.queueLength > 0
    /\ immediates > 0

\* C19: in every state of a running process, also with activeJobs at the cap
\* and commands that never end, a valid submission can be answered 202 and
\* GET /health can be answered
C19_HungJobsBlockNothing ==
    (proc = "up" /\ activeJobs = MAX_CONCURRENT_JOBS /\ executing # {})
        => /\ SubmissionAccepted
           /\ ENABLED (Health /\ last'.status = 200)

\* a submission was answered 202 while every slot was taken
C19_Witness ==
    /\ last.op = "generate-docs"
    /\ last.status = 202
    /\ last.activeJobs = MAX_CONCURRENT_JOBS
    /\ Cardinality(executing) = MAX_CONCURRENT_JOBS

\* C17: when every accepted job has completed, activeJobs = 0 and jobQueue
\* is empty, GET /health reports both as 0, and the scheduler stays so until
\* a new submission is accepted; and under a fair event loop a process with
\* uncompleted jobs reaches that state (or ends)
C17_Quiescence ==
    /\ [](completed = accepted =>
            /\ activeJobs = 0
            /\ jobQueue = <<>>
            /\ executing = {}
            /\ last.op = "health" =>
                    (last.activeJobs = 0 /\ last.queueLength = 0))
    /\ [][(completed = accepted /\ accepted' = accepted)
            => (completed' = accepted' /\ activeJobs' = 0 /\ jobQueue' = <<>>)]_vars
    /\ (completed < accepted) ~> (completed = accepted)

\* GET /health answers after two jobs have completed and every scheduled
\* drain has run
C17_Witness ==
    /\ last.op = "health"
    /\ accepted >= 2
    /\ completed = accepted
    /\ immediates = 0
    /\ last.activeJobs = 0
    /\ last.queueLength = 0

\* C20: processJob returns success = true exactly when the command exited
\* with code 0 before the timeout, and for a non-zero exit success = false
\* with exitCode the command's exit code
C20_OutcomeClassified ==
    last.op = "job-done" =>
        /\ last.success <=> last.outcome = "exit0"
        /\ last.outcome = "exitN" => (~last.success /\ last.exitCode = EXIT_N)

\* a command has ended with a non-zero exit code
C20_Witness ==
    /\ last.op = "job-done"
    /\ last.outcome = "exitN"
    /\ last.exitCode = EXIT_N
    /\ ~last.success

\* C21: a job whose command is killed by the timeout is reported with
\* success = false and exitCode 'TIMEOUT'; the step that reports it takes the
\* job out of the executing ones, decrements activeJobs and schedules a
\* drain; and under a fair event loop the job then at the head of jobQueue
\* begins execution (unless the process ends first)
C21_TimedOutJobFreesSlot ==
    /\ []((last.op = "job-done" /\ last.outcome = "timeout")
            => (~last.success /\ last.exitCode = "TIMEOUT"))
    /\ [][(last'.op = "job-done" /\ last'.outcome = "timeout")
            => /\ activeJobs' = activeJobs - 1
               /\ Cardinality(executing') = Cardinality(executing) - 1
               /\ immediates' = immediates + 1
               /\ jobQueue' = jobQueue]_vars
    /\ \A id \in 1..MaxJobs :
          (/\ last.op = "job-done"
           /\ last.outcome = "timeout"
           /\ jobQueue # <<>>
           /\ Head(jobQueue).id = id)
            ~> ((\E i \in 1..Len(started) : started[i] = id) \/ proc = "down")

\* with a cap of 1 the only running job has timed out while another waits
C21_Witness ==
    /\ MAX_CONCURRENT_JOBS = 1
    /\ last.op = "job-done"
    /\ last.outcome = "timeout"
    /\ last.exitCode = "TIMEOUT"
    /\ activeJobs = 0
    /\ Len(jobQueue) > 0

\* C22: no job is handed to processJob twice and no started job is in
\* jobQueue again: the ids of the started jobs are distinct, none of them
\* waits in jobQueue, every started job is executing or completed; a running
\* process only appends to the list of started jobs; and the step that
\* reports a job's outcome (also failure or timeout) removes it from the
\* executing jobs and leaves jobQueue and the started jobs as they are
C22_NoRetries ==
    /\ [](/\ \A i, j \in 1..Len(started) : i # j => started[i] # started[j]
          /\ \A i \in 1..Len(started), j \in 1..Len(jobQueue) :
                started[i] # jobQueue[j].id
          /\ Len(started) = Cardinality(executing) + completed)
    /\ [][(proc = "up" /\ proc' = "up")
            => /\ Len(started') >= Len(started)
               /\ SubSeq(started', 1, Len(started)) = started]_vars
    /\ [][last'.op = "job-done"
            => /\ jobQueue' = jobQueue
               /\ started' = started
               /\ completed' = completed + 1
               /\ executing' \subseteq executing
               /\ Cardinality(executing') = Cardinality(executing) - 1]_vars

\* the first job has failed and is completed while the second one waits
C22_Witness ==
    /\ last.op = "job-done"
    /\ last.outcome = "exitN"
    /\ ~last.success
    /\ started = <<1>>
    /\ completed = 1
    /\ Len(jobQueue) > 0
    /\ jobQueue[1].id = 2

\* jobs a and b are of the same project and carry the same payload (hence
\* the same commit)
SameSubmission(a, b) == a.project = b.project /\ a.payload = b.payload

\* C23: a submission answered 202 adds an entry of its own to jobQueue, with
\* the request's project and payload, also when a job of the same project
\* and payload waits or runs; and under a fair event loop two such entries
\* both begin execution (unless the process ends first)
C23_DuplicatesBothRun ==
    /\ [][(last'.op = "generate-docs" /\ last'.status = 202)
            => /\ Len(jobQueue') = Len(jobQueue) + 1
               /\ Last(jobQueue').id = accepted + 1
               /\ Last(jobQueue').payload = ReqBody(last'.req, express)
               /\ Last(jobQueue').project = RepositoryName(Last(jobQueue').payload)
               /\ \A i \in 1..Len(jobQueue) : jobQueue'[i] = jobQueue[i]]_vars
    /\ \A a, b \in 1..MaxJobs :
          (/\ a < b
           /\ \E i, j \in 1..Len(jobQueue) :
                 /\ jobQueue[i].id = a
                 /\ jobQueue[j].id = b
                 /\ SameSubmission(jobQueue[i], jobQueue[j]))
            ~> (\/ proc = "down"
                \/ /\ \E i \in 1..Len(started) : started[i] = a
                   /\ \E i \in 1..Len(started) : started[i] = b)

\* two jobs of the same project and payload are executing at once
C23_Witness ==
    \E a, b \in executing :
        /\ a.id # b.id
        /\ SameSubmission(a, b)
        /\ AfterType(a.payload) # "number"

\* C24: of every job whose command has ended, the output and error fields
\* of the returned outcome and the stdout, stderr and error texts of the log
\* entries are at most SUBSTRING_CAP (500) characters long
C24_CapturedOutputCapped ==
    last.op = "job-done" =>
        /\ last.captured.output <= SUBSTRING_CAP
        /\ last.captured.error <= SUBSTRING_CAP
        /\ last.captured.logStdout <= SUBSTRING_CAP
        /\ last.captured.logStderr <= SUBSTRING_CAP
        /\ last.captured.logError <= SUBSTRING_CAP

\* the restart-service request of event e was verified, names an enabled
\* project of the registry, and its ref is not the project's default branch
\* or its head_commit.message does not contain 'Merge pull request'
SignedNonMerge(e, major) ==
    LET payload == ReqBody(e.req, major)
        project == ProjectOf(RepositoryName(payload))
    IN /\ e.op = "restart-service"
       /\ e.verified = "true"
       /\ project.found
       /\ project.enabled
       /\ \/ RefOf(payload) # BranchRef(project.default_branch)
          \/ ~HasMergeMarker(payload)

\* C25: a verified /webhook/restart-service request for an enabled project
\* that is not a merge to the default branch is answered 200 and starts no
\* restart handler
C25_NonMergeIsNoop ==
    [][SignedNonMerge(last', express')
          => (last'.status = 200 /\ restarting' = restarting)]_vars

\* C26: a restart handler starts only in the step that handles a verified
\* /webhook/restart-service request naming a registered, enabled project,
\* with ref = refs/heads/<default_branch> and a head_commit.message that
\* contains 'Merge pull request'; that step starts one handler
C26_RestartOnlyForVerifiedMerge ==
    [][restarting' > restarting
          => LET payload == ReqBody(last'.req, express)
                 name == RepositoryName(payload)
             IN /\ last'.op = "restart-service"
                /\ last'.verified = "true"
                /\ Delivered(last'.req, env, express).verified = "true"
                /\ name \in RegistryKeys
                /\ ProjectOf(name).enabled
                /\ RefOf(payload) = BranchRef(ProjectOf(name).default_branch)
                /\ HasMergeMarker(payload)
                /\ restarting' = restarting + 1]_vars

\* the restart handler has been started for a verified merge
C26_Witness ==
    /\ last.op = "restart-service"
    /\ last.outcome = "invoked"
    /\ last.verified = "true"
    /\ HasMergeMarker(ReqBody(last.req, express))
    /\ restarting = 1

\* C27: a verified webhook for a project that is registered and disabled is
\* answered 200 on /webhook/generate-docs and on /webhook/restart-service,
\* and the step enqueues no job, schedules no drain and starts no restart
C27_DisabledProjectIsNoop ==
    [][(/\ last'.op \in {"generate-docs", "restart-service"}
        /\ last'.verified = "true"
        /\ RepositoryName(ReqBody(last'.req, express)) \in RegistryKeys
        /\ ~ProjectOf(RepositoryName(ReqBody(last'.req, express))).enabled)
          => /\ last'.status = 200
             /\ UNCHANGED <<jobQueue, activeJobs, immediates, accepted, restarting>>]_vars

----------------------------------------------------------------------------
(* Properties of startup and of the registry (RegistrySpec) *)

\* C28: a start() that finds project-registry.json unreadable ends the
\* process with exit code 1 and without listening; a process that is up has
\* loaded a registry; and a process that is down handles no request: its
\* only events are start attempts (and edits of the file)
C28_FailedLoadNeverServes ==
    /\ [][(/\ proc = "down"
           /\ ~Loads(registryFile)
           /\ last' # last
           /\ last'.op \in {"start", "start-failed"})
            => /\ last'.op = "start-failed"
               /\ last'.exit = "1"
               /\ proc' = "down"
               /\ projectRegistry' = NotLoaded]_vars
    /\ [](proc = "up" => Loads(projectRegistry))
    /\ [][(proc = "down" /\ last' # last)
            => last'.op \in {"start", "start-failed", "edit-registry"}]_vars

\* a start has failed on an unreadable registry and the process has ended
\* with exit code 1
C28_Witness ==
    /\ last.op = "start-failed"
    /\ last.exit = "1"
    /\ registryFile = UNREADABLE
    /\ proc = "down"
    /\ projectRegistry = NotLoaded

\* C29: the registry is loaded by start() (a started process holds what was
\* on disk at that moment); no step of a running process changes
\* projectRegistry, whatever happens to the file; and every webhook that
\* names a project is resolved in the loaded registry: it is accepted, or
\* starts a restart, only for a project enabled there
C29_RegistryLoadedOnce ==
    /\ [][(last' # last /\ last'.op = "start")
            => (projectRegistry' = registryFile /\ Loads(projectRegistry'))]_vars
    /\ [][(proc = "up" /\ proc' = "up") => projectRegistry' = projectRegistry]_vars
    /\ [][(/\ last' # last
           /\ last'.op \in {"generate-docs", "restart-service"}
           /\ last'.verified = "true"
           /\ RepositoryName(ReqBody(last'.req, express)) # "")
            => LET name == RepositoryName(ReqBody(last'.req, express))
                   project == ProjectIn(projectRegistry, name)
               IN /\ last'.status = 202 <=>
                        (last'.op = "generate-docs" /\ project.enabled)
                  /\ last'.status = 404 <=>
                        \/ ~project.found
                        \/ (last'.op = "restart-service" /\ ~project.enabled)
                  /\ last'.outcome = "invoked" => project.enabled]_vars

\* a webhook of wish-legacy is answered from the registry loaded at start
\* (disabled) after the file on disk has been changed to enable the project
C29_Witness ==
    /\ proc = "up"
    /\ projectRegistry = README_REGISTRY
    /\ registryFile = EDITED_REGISTRY
    /\ last.op = "generate-docs"
    /\ last.verified = "true"
    /\ last.status = 200
    /\ RepositoryName(ReqBody(last.req, express)) = "wish-legacy"

----------------------------------------------------------------------------
(* Properties of the log *)

\* the signature texts in the log entries written for the last event, when
\* it is a webhook answered 401
LogEntries ==
    IF last.op \in {"generate-docs", "restart-service"} /\ last.status = 401
    THEN SignatureLog(last.req, env, express) \cup RejectionLog(last.op, last.req)
    ELSE {}

\* C30: for a webhook answered 401, no log entry holds the received
\* signature header value, and none holds the digest expected for the
\* request
C30_SignatureRedactedInLogs ==
    (last.op \in {"generate-docs", "restart-service"} /\ last.status = 401)
        => \A entry \in LogEntries :
              /\ ~(last.req.hasSig /\ last.req.sig # <<>> /\ entry.text = last.req.sig)
              /\ \/ SecretOf(env) = <<>>
                 \/ ~PayloadOf(last.req, express).defined
                 \/ entry.text # DigestOf(SecretOf(env),
                                          PayloadOf(last.req, express).text)

----------------------------------------------------------------------------
(* Properties of the process lifetime *)

\* the queue of a process that holds no job
QueueEmpty ==
    /\ jobQueue = <<>>
    /\ activeJobs = 0
    /\ executing = {}
    /\ immediates = 0

----------------------------------------------------------------------------
(* Properties of the documented requests (GuideSpec) *)

\* C33: the verified generate-docs request of the NGINX guide is answered
\* 202 (its job is queued), and the verified restart-service request of the
\* guide starts the restart handler
C33_GuideRequestsAct ==
    /\ (last.op = "generate-docs" /\ last.req = GuideDocs /\ last.verified = "true")
          => last.status = 202
    /\ (last.op = "restart-service" /\ last.req = GuideRestart
            /\ last.verified = "true")
          => last.outcome = "invoked"

----------------------------------------------------------------------------
(* Properties of the restart handler *)

\* C34: a restart-service request that has passed every gate has no
\* response while restart-service.sh runs; the response sent when the
\* script ends is 200 with success true when it exited with code 0, and 500
\* with success false when it exited with another code
C34_RestartResponseReflectsExit ==
    /\ (last.op = "restart-service" /\ last.outcome = "invoked")
          => last.status = 0 /\ restarting > 0
    /\ (last.op = "restart-done" /\ last.outcome = "exit0")
          => last.status = 200 /\ last.success
    /\ (last.op = "restart-done" /\ last.outcome = "exitN")
          => last.status = 500 /\ ~last.success

\* restart-service.sh has exited with a code other than 0 and the handler
\* has answered 500
C34_Witness ==
    /\ last.op = "restart-done"
    /\ last.outcome = "exitN"
    /\ last.status = 500
    /\ ~last.success

----------------------------------------------------------------------------
(* Properties of the configuration (CapSpec) *)

\* C35: whatever the text of MAX_CONCURRENT_JOBS, the cap of a running
\* process is an integer of at least 1, and processQueue starts a job from
\* a non-empty queue when no job is active
C35_CapAtLeastOne ==
    proc = "up" =>
        /\ MAX_CONCURRENT_JOBS # NaN
        /\ MAX_CONCURRENT_JOBS >= 1
        /\ (jobQueue # <<>> /\ activeJobs = 0)
              => Iterations(Len(jobQueue), activeJobs, MAX_CONCURRENT_JOBS) >= 1

----------------------------------------------------------------------------
(* Properties of concurrency between jobs and restarts *)

\* C36: whatever jobs are executing, a scheduled drain with a free slot
\* starts the head of the queue, and a verified merge webhook starts the
\* restart handler: neither looks at the project of an executing job
C36_NoPerProjectExclusion ==
    /\ (/\ proc = "up"
        /\ immediates > 0
        /\ jobQueue # <<>>
        /\ activeJobs < MAX_CONCURRENT_JOBS)
          => ENABLED (processQueue /\ Len(started') > Len(started))
    /\ (/\ proc = "up"
        /\ projectRegistry = README_REGISTRY
        /\ env.WEBHOOK_SECRET = K1
        /\ restarting < MaxRestarts)
          => ENABLED (RestartService(MergeRequest) /\ restarting' = restarting + 1)

\* two jobs of wish-x are executing while the restart handler started for
\* wish-x runs
C36_Witness ==
    /\ MAX_CONCURRENT_JOBS >= 2
    /\ \E a, b \in executing :
          /\ a.id # b.id
          /\ a.project = "wish-x"
          /\ b.project = "wish-x"
    /\ restarting > 0
    /\ last.op = "restart-service"
    /\ last.outcome = "invoked"
    /\ RepositoryName(ReqBody(last.req, express)) = "wish-x"

\* C37: a step of the restart-service handler that answers 401, 400, 404,
\* 200 or 500, or that starts restart-service.sh, leaves jobQueue,
\* activeJobs, the executing jobs and the scheduled drains as they are; and
\* a verified merge webhook starts the restart handler while activeJobs =
\* MAX_CONCURRENT_JOBS, without changing activeJobs
C37_RestartLeavesQueue ==
    /\ [][(/\ last'.op \in {"restart-service", "restart-done"}
           /\ \/ last'.status \in {401, 400, 404, 200, 500}
              \/ last'.outcome = "invoked")
            => UNCHANGED <<jobQueue, activeJobs, executing, immediates, history>>]_vars
    /\ []((/\ proc = "up"
           /\ projectRegistry = README_REGISTRY
           /\ env.WEBHOOK_SECRET = K1
           /\ restarting < MaxRestarts
           /\ activeJobs = MAX_CONCURRENT_JOBS)
            => ENABLED (/\ RestartService(MergeRequest)
                        /\ restarting' = restarting + 1
                        /\ activeJobs' = activeJobs))

\* the restart handler has been started while every slot is taken and a job
\* waits
C37_Witness ==
    /\ last.op = "restart-service"
    /\ last.outcome = "invoked"
    /\ restarting > 0
    /\ activeJobs = MAX_CONCURRENT_JOBS
    /\ Cardinality(executing) = MAX_CONCURRENT_JOBS
    /\ jobQueue # <<>>

----------------------------------------------------------------------------
(* Properties of invoke-cartographer-programmatic.mjs (CartographerSpec) *)

\* the run has ended after the exception of one of its steps
ExitedAfterRaise ==
    /\ cartographer.pc = "exited"
    /\ cartographer.raised # "-"

\* C38 as claimed: a run that exits with code 0 has written
\* docs/CODEBASE_MAP.md and the summary; a run in which the scan, the
\* synthesis or a write raised has written the error message to the output
\* file and exits with code 1; no analysis of a group ends the run
C38_ErrorAlwaysWritten ==
    /\ cartographer.exit = "0"
          => cartographer.map /\ cartographer.output = "summary"
    /\ ExitedAfterRaise
          => cartographer.exit = "1" /\ cartographer.output = "error"
    /\ cartographer.raised
          \in {"-", "scan", "synthesize", "write-map", "write-summary"}

\* C38, amended: a run that exits with code 0 has written
\* docs/CODEBASE_MAP.md and the summary; a run in which the scan, the
\* synthesis or a write raised exits with code 1, and the output file holds
\* the error message when the write of the message succeeds, and does not
\* hold it when that write raises too; no analysis of a group ends the run
C38_ExitCodeAndOutput ==
    /\ cartographer.exit = "0"
          => /\ cartographer.map
             /\ cartographer.output = "summary"
             /\ cartographer.raised = "-"
    /\ ExitedAfterRaise
          => /\ cartographer.exit = "1"
             /\ cartographer.outputWritable => cartographer.output = "error"
             /\ ~cartographer.outputWritable => cartographer.output = "none"
    /\ cartographer.raised
          \in {"-", "scan", "synthesize", "write-map", "write-summary"}
    /\ (cartographer.pc = "exited" /\ cartographer.raised = "-")
          => cartographer.exit = "0"

\* the write of the summary has raised after the analysis of a group had
\* failed and docs/CODEBASE_MAP.md had been written: the run has ended with
\* code 1 and an output file without the error message
C38_Witness ==
    /\ cartographer.pc = "exited"
    /\ cartographer.raised = "write-summary"
    /\ cartographer.exit = "1"
    /\ cartographer.map
    /\ cartographer.output = "none"
    /\ \E i \in 1..Len(cartographer.analyses) : cartographer.analyses[i] = "failed"

\* the groups in order, one after the other
RECURSIVE Concat(_)
Concat(groups) ==
    IF groups = <<>> THEN <<>> ELSE Head(groups) \o Concat(Tail(groups))

\* the sum of the token estimates of a group
RECURSIVE TokenSum(_)
TokenSum(group) ==
    IF group = <<>> THEN 0 ELSE Head(group).tokens + TokenSum(Tail(group))

\* C39: once groupFiles has returned, the groups concatenated in order are
\* the scanned files, no group is empty, and every group holds at most
\* MAX_TOKENS tokens or a single file
C39_GroupsPartitionFiles ==
    (cartographer.pc \notin {"idle", "scan", "group"} /\ cartographer.raised # "scan")
        => LET groups == cartographer.groups
           IN /\ Concat(groups) = cartographer.scanResult.files
              /\ \A i \in 1..Len(groups) :
                    /\ groups[i] # <<>>
                    /\ TokenSum(groups[i]) <= MAX_TOKENS \/ Len(groups[i]) = 1

\* groupFiles has returned a group of two files, then a group of one file
\* above MAX_TOKENS
C39_Witness ==
    /\ cartographer.pc = "analyze"
    /\ Len(cartographer.groups) = 2
    /\ Len(cartographer.groups[1]) = 2
    /\ Len(cartographer.groups[2]) = 1
    /\ TokenSum(cartographer.groups[2]) > MAX_TOKENS

====
